---- MODULE Spec2Model ----
(***************************************************************************)
(* The macro execution engine of video_core/macro: the opcode decoder, the *)
(* bytecode interpreter (InterpretedMacro), the x64 JIT (JitMacro) and the *)
(* compiled-macro cache (MacroEngine).                                     *)
(*                                                                         *)
(* A u32 is kept as the pair <<hi, lo>> of its two 16-bit halves, so that  *)
(* every 32-bit value and every wrap-around is represented exactly.        *)
(***************************************************************************)
EXTENDS Integers, Sequences, FiniteSets, TLC

VARIABLES
    backend,              \* which MacroEngine GetMacroEngine built: "interp" | "jit"
    uploaded_macro_code,  \* MacroEngine::uploaded_macro_code : method -> words
    macro_cache,          \* MacroEngine::macro_cache : method -> CachedMacro object
    running,              \* method whose CachedMacro::Execute is on the stack, or NoMethod
    is_delay_slot,        \* argument of the InterpretedMacro::Step call about to run
    exit_pending,         \* a Step frame below the next one will "return false"
    jit,                  \* machine registers of the running JIT routine
    writes,               \* Maxwell3D::WriteReg calls of the current invocation
    reads,                \* engine-register reads of the current invocation
    executed,             \* code-word indices executed by the current invocation
    compile_count,        \* number of Compile calls per method
    calls,                \* per method, the MacroEngine::Execute calls made so far
    called,               \* method argument of the last MacroEngine::Execute call
    cache_hit,            \* whether that call found its method in macro_cache
    outcome,              \* how the last Execute call ended (or "running")
    crashed,              \* a fatal ASSERT / uncaught exception ended the process
    ref                   \* outcome of the reference (interpreter) run, for comparison

vars == <<backend, uploaded_macro_code, macro_cache, running, is_delay_slot,
          exit_pending, jit, writes, reads, executed, compile_count, calls, called,
          cache_hit, outcome,
          crashed, ref>>

(***************************************************************************)
(* Bounds of the model.                                                    *)
(***************************************************************************)
MaxCode == 3        \* words uploaded per method
MaxSteps == 6       \* instructions executed per invocation
MaxExecutes == 2    \* Execute calls per engine

(***************************************************************************)
(* 32-bit unsigned arithmetic on <<hi, lo>>.                               *)
(***************************************************************************)
Half == 2 ^ 16

Hi(v) == v[1]
Lo(v) == v[2]
U32(h, l) == <<h % Half, l % Half>>
Zero32 == <<0, 0>>
IsZero32(v) == v = Zero32

\* s32/int in -2^31 .. 2^31-1 to its u32 bit pattern
FromInt(i) == <<(i \div Half) % Half, i % Half>>

Add32(a, b) ==
    LET l == Lo(a) + Lo(b)
    IN  <<(Hi(a) + Hi(b) + (l \div Half)) % Half, l % Half>>

Sub32(a, b) ==
    LET l == Lo(a) - Lo(b)
    IN  <<(Hi(a) - Hi(b) + (l \div Half)) % Half, l % Half>>

RECURSIVE BitOp16(_, _, _, _)
BitOp16(op, a, b, n) ==
    IF n = 0 THEN 0
    ELSE LET x == a % 2
             y == b % 2
             r == CASE op = "and" -> IF x = 1 /\ y = 1 THEN 1 ELSE 0
                    [] op = "or"  -> IF x = 1 \/ y = 1 THEN 1 ELSE 0
                    [] op = "xor" -> IF x # y THEN 1 ELSE 0
         IN  r + 2 * BitOp16(op, a \div 2, b \div 2, n - 1)

And32(a, b) == <<BitOp16("and", Hi(a), Hi(b), 16), BitOp16("and", Lo(a), Lo(b), 16)>>
Or32(a, b)  == <<BitOp16("or", Hi(a), Hi(b), 16), BitOp16("or", Lo(a), Lo(b), 16)>>
Xor32(a, b) == <<BitOp16("xor", Hi(a), Hi(b), 16), BitOp16("xor", Lo(a), Lo(b), 16)>>
Not32(a)    == <<Half - 1 - Hi(a), Half - 1 - Lo(a)>>

\* a << n and a >> n (logical) for 0 <= n <= 31
Shl32(a, n) ==
    IF n >= 16
    THEN <<(Lo(a) % (2 ^ (32 - n))) * (2 ^ (n - 16)), 0>>
    ELSE <<(Hi(a) % (2 ^ (16 - n))) * (2 ^ n) + (Lo(a) \div (2 ^ (16 - n))),
           (Lo(a) % (2 ^ (16 - n))) * (2 ^ n)>>

Shr32(a, n) ==
    IF n >= 16
    THEN <<0, Hi(a) \div (2 ^ (n - 16))>>
    ELSE <<Hi(a) \div (2 ^ n),
           (Lo(a) \div (2 ^ n)) + (Hi(a) % (2 ^ n)) * (2 ^ (16 - n))>>

\* bits [pos, pos+n) of a u32, as a number (n <= 18)
Bits(v, pos, n) ==
    LET s == Shr32(v, pos)
    IN  IF n > 16 THEN (Hi(s) % (2 ^ (n - 16))) * Half + Lo(s)
        ELSE Lo(s) % (2 ^ n)

(***************************************************************************)
(* macro.h: enums and the Opcode / MethodAddress bit fields.               *)
(***************************************************************************)
NumMacroRegisters == 8

OpALU == 0
OpAddImmediate == 1
OpExtractInsert == 2
OpExtractShiftLeftImmediate == 3
OpExtractShiftLeftRegister == 4
OpRead == 5
OpUnused == 6
OpBranch == 7

AluAdd == 0
AluAddWithCarry == 1
AluSubtract == 2
AluSubtractWithBorrow == 3
AluXor == 8
AluOr == 9
AluAnd == 10
AluAndNot == 11
AluNand == 12

IgnoreAndFetch == 0
Move == 1
MoveAndSetMethod == 2
FetchAndSend == 3
MoveAndSend == 4
FetchAndSetMethod == 5
MoveAndSetMethodFetchAndSend == 6
MoveAndSetMethodSend == 7

CondZero == 0
CondNotZero == 1

\* BitField<14, 18, s32>: the 18 bits sign-extended
SignExtend18(x) == IF x >= 131072 THEN x - 262144 ELSE x

\* union Opcode: every field is a pure function of the raw word
Decode(w) ==
    [raw              |-> w,
     operation        |-> Bits(w, 0, 3),
     result_operation |-> Bits(w, 4, 3),
     branch_condition |-> Bits(w, 4, 1),
     branch_annul     |-> Bits(w, 5, 1),
     is_exit          |-> Bits(w, 7, 1),
     dst              |-> Bits(w, 8, 3),
     src_a            |-> Bits(w, 11, 3),
     src_b            |-> Bits(w, 14, 3),
     immediate        |-> SignExtend18(Bits(w, 14, 18)),
     alu_operation    |-> Bits(w, 17, 5),
     bf_src_bit       |-> Bits(w, 17, 5),
     bf_size          |-> Bits(w, 22, 5),
     bf_dst_bit       |-> Bits(w, 27, 5)]

\* Opcode::GetBitfieldMask: (1 << bf_size) - 1 as u32
GetBitfieldMask(op) == Sub32(Shl32(<<0, 1>>, op.bf_size), <<0, 1>>)

\* Opcode::GetBranchTarget: immediate * sizeof(u32), as s32
GetBranchTarget(op) == op.immediate * 4

\* MethodAddress: BitField<0, 12> address, BitField<12, 6> increment
MaAddress(ma) == Bits(ma, 0, 12)
MaIncrement(ma) == Bits(ma, 12, 6)
\* BitField::Assign on the address field: only bits 0..11 are replaced
MaAssignAddress(ma, a) == <<Hi(ma), ((Lo(ma) \div 4096) * 4096) + (a % 4096)>>

(***************************************************************************)
(* Inputs of the command stream and the engine-register collaborator.      *)
(***************************************************************************)
NoMethod == 0
Methods == {1, 2}

\* Maxwell3D::GetRegisterValue / regs.reg_array: a pure lookup
EngineRegister(addr) == IF addr = <<0, 1>> THEN <<0, 9>> ELSE Zero32

(***************************************************************************)
(* macro_interpreter.cpp: InterpretedMacro.  A frame f carries the fields  *)
(* of the object (pc, delayed_pc, registers, method_address, parameters,   *)
(* next_parameter_index) and, while one Step runs, what that Step did:     *)
(* sent (WriteReg calls), rd (engine reads), err (failed ASSERT), ret (how *)
(* the call ends) and taken (a branch whose condition held).               *)
(***************************************************************************)
ZeroRegisters == [i \in 0..(NumMacroRegisters - 1) |-> Zero32]

\* InterpretedMacro::InterpretedMacro (pc has no initializer; Reset sets it
\* before it is ever read)
NewInterpretedMacro ==
    [pc |-> 0, delayed_pc |-> <<>>, registers |-> ZeroRegisters,
     method_address |-> Zero32, parameters |-> <<>>, next_parameter_index |-> 0]

Object(f) ==
    [pc |-> f.pc, delayed_pc |-> f.delayed_pc, registers |-> f.registers,
     method_address |-> f.method_address, parameters |-> f.parameters,
     next_parameter_index |-> f.next_parameter_index]

Frame(o) ==
    [pc |-> o.pc, delayed_pc |-> o.delayed_pc, registers |-> o.registers,
     method_address |-> o.method_address, parameters |-> o.parameters,
     next_parameter_index |-> o.next_parameter_index,
     sent |-> <<>>, rd |-> <<>>, err |-> "", ret |-> "true", taken |-> FALSE]

Fail(f, e) == IF f.err = "" THEN [f EXCEPT !.err = e] ELSE f

\* variant: a Reset that leaves the register file as it is
ResetKeepsRegisters(o) ==
    [o EXCEPT !.pc = 0, !.delayed_pc = <<>>, !.method_address = Zero32,
              !.parameters = <<>>, !.next_parameter_index = 1]

\* InterpretedMacro::Reset
Reset(o) ==
    [o EXCEPT !.registers = ZeroRegisters, !.pc = 0, !.delayed_pc = <<>>,
              !.method_address = Zero32, !.parameters = <<>>,
              !.next_parameter_index = 1]

\* InterpretedMacro::Execute up to the step loop
InterpExecuteEntry(o, parameters) ==
    [Reset(o) EXCEPT !.registers[1] = parameters[1], !.parameters = parameters]

\* InterpretedMacro::GetRegister
GetRegister(f, register_id) ==
    IF register_id = 0 THEN Zero32 ELSE f.registers[register_id]

\* variant: a SetRegister without the register-0 guard
SetRegisterUnguarded(f, register_id, value) ==
    [f EXCEPT !.registers[register_id] = value]

\* InterpretedMacro::SetRegister
SetRegister(f, register_id, value) ==
    IF register_id = 0 THEN f ELSE [f EXCEPT !.registers[register_id] = value]

\* InterpretedMacro::SetMethodAddress
SetMethodAddress(f, address) == [f EXCEPT !.method_address = address]

\* variant: a Send that adds the increment to the whole word
SendCarries(f, value) ==
    [f EXCEPT !.sent = Append(@, <<MaAddress(f.method_address), value>>),
              !.method_address = Add32(@, <<0, MaIncrement(@)>>)]

\* InterpretedMacro::Send
Send(f, value) ==
    [f EXCEPT !.sent = Append(@, <<MaAddress(f.method_address), value>>),
              !.method_address =
                  MaAssignAddress(@, MaAddress(@) + MaIncrement(@))]

\* InterpretedMacro::Read
Read(method) == EngineRegister(method)

\* variant: a FetchParameter that leaves the cursor where it is
FetchNoAdvance(f) == f

\* InterpretedMacro::FetchParameter: the ASSERT, the value, the increment
FetchOk(f) == f.next_parameter_index < Len(f.parameters)
FetchValue(f) == f.parameters[f.next_parameter_index + 1]
FetchAdvance(f) == [f EXCEPT !.next_parameter_index = @ + 1]

\* variant: an ALU whose AndNot complements src_a instead of src_b
GetALUResultNotA(operation, src_a, src_b) ==
    CASE operation = AluAdd      -> Add32(src_a, src_b)
      [] operation = AluSubtract -> Sub32(src_a, src_b)
      [] operation = AluXor      -> Xor32(src_a, src_b)
      [] operation = AluOr       -> Or32(src_a, src_b)
      [] operation = AluAnd      -> And32(src_a, src_b)
      [] operation = AluAndNot   -> And32(Not32(src_a), src_b)
      [] operation = AluNand     -> Not32(And32(src_a, src_b))
      [] OTHER                   -> <<>>

\* InterpretedMacro::GetALUResult; <<>> is the UNIMPLEMENTED_MSG default
GetALUResult(operation, src_a, src_b) ==
    CASE operation = AluAdd      -> Add32(src_a, src_b)
      [] operation = AluSubtract -> Sub32(src_a, src_b)
      [] operation = AluXor      -> Xor32(src_a, src_b)
      [] operation = AluOr       -> Or32(src_a, src_b)
      [] operation = AluAnd      -> And32(src_a, src_b)
      [] operation = AluAndNot   -> And32(src_a, Not32(src_b))
      [] operation = AluNand     -> Not32(And32(src_a, src_b))
      [] OTHER                   -> <<>>

\* InterpretedMacro::ProcessResult
ProcessResult(f, operation, reg, result) ==
    CASE operation = IgnoreAndFetch ->
           IF FetchOk(f) THEN SetRegister(FetchAdvance(f), reg, FetchValue(f))
           ELSE Fail(f, "assert_fetch")
      [] operation = Move -> SetRegister(f, reg, result)
      [] operation = MoveAndSetMethod ->
           SetMethodAddress(SetRegister(f, reg, result), result)
      [] operation = FetchAndSend ->
           IF FetchOk(f)
           THEN Send(SetRegister(FetchAdvance(f), reg, FetchValue(f)), result)
           ELSE Fail(f, "assert_fetch")
      [] operation = MoveAndSend -> Send(SetRegister(f, reg, result), result)
      [] operation = FetchAndSetMethod ->
           IF FetchOk(f)
           THEN SetMethodAddress(SetRegister(FetchAdvance(f), reg, FetchValue(f)),
                                 result)
           ELSE Fail(f, "assert_fetch")
      [] operation = MoveAndSetMethodFetchAndSend ->
           LET g == SetMethodAddress(SetRegister(f, reg, result), result)
           IN  IF FetchOk(g) THEN Send(FetchAdvance(g), FetchValue(g))
               ELSE Fail(g, "assert_fetch")
      [] operation = MoveAndSetMethodSend ->
           LET g == SetMethodAddress(SetRegister(f, reg, result), result)
           IN  Send(g, <<0, Bits(result, 12, 6)>>)

\* InterpretedMacro::EvaluateBranchCondition
EvaluateBranchCondition(cond, value) ==
    IF cond = CondZero THEN IsZero32(value) ELSE ~IsZero32(value)

\* InterpretedMacro::GetOpcode: the ASSERT that pc is inside the code (pc is
\* kept as the signed representative of the u32, a negative pc is >= 2^31)
GetOpcodeOk(f, code) == f.pc >= 0 /\ f.pc < Len(code) * 4
GetOpcode(f, code) == Decode(code[(f.pc \div 4) + 1])

\* variant: a delay-slot step that takes the pending target and leaves the
\* slot populated
AdvancePcKeepsPending(f, delay) ==
    IF f.delayed_pc # <<>>
    THEN IF delay
         THEN [f EXCEPT !.pc = f.delayed_pc[1]]
         ELSE Fail([f EXCEPT !.pc = @ + 4], "assert_is_delay_slot")
    ELSE [f EXCEPT !.pc = @ + 4]

\* Step, from "pc += 4" to the end of the delayed_pc block
AdvancePc(f, delay) ==
    IF f.delayed_pc # <<>>
    THEN IF delay
         THEN [f EXCEPT !.pc = f.delayed_pc[1], !.delayed_pc = <<>>]
         ELSE Fail([f EXCEPT !.pc = @ + 4], "assert_is_delay_slot")
    ELSE [f EXCEPT !.pc = @ + 4]

\* variant: an ExtractInsert that does not clear the destination field
StepValueNoClear(opcode, a, b, mask) ==
    CASE opcode.operation = OpAddImmediate -> Add32(a, FromInt(opcode.immediate))
      [] opcode.operation = OpExtractInsert ->
           Or32(a, Shl32(And32(Shr32(b, opcode.bf_src_bit), mask), opcode.bf_dst_bit))
      [] OTHER -> <<>>

\* variant: an AddImmediate that yields reg[src_a] without the immediate
StepValueNoImmediate(opcode, a, b, mask) ==
    CASE opcode.operation = OpALU -> GetALUResult(opcode.alu_operation, a, b)
      [] opcode.operation = OpAddImmediate -> a
      [] opcode.operation = OpRead -> Read(Add32(a, FromInt(opcode.immediate)))
      [] OTHER -> <<>>

\* Step: the value computed by a non-branch operation on a = reg[src_a] and
\* b = reg[src_b] (<<>>: UNIMPLEMENTED_MSG).  A shift by 32 or more is
\* undefined in C++; the words used here keep shift counts below 32.
StepValue(opcode, a, b, mask) ==
    CASE opcode.operation = OpALU -> GetALUResult(opcode.alu_operation, a, b)
      [] opcode.operation = OpAddImmediate -> Add32(a, FromInt(opcode.immediate))
      [] opcode.operation = OpExtractInsert ->
           Or32(And32(a, Not32(Shl32(mask, opcode.bf_dst_bit))),
                Shl32(And32(Shr32(b, opcode.bf_src_bit), mask), opcode.bf_dst_bit))
      [] opcode.operation = OpExtractShiftLeftImmediate ->
           Shl32(And32(Shr32(b, Lo(a) % 32), mask), opcode.bf_dst_bit)
      [] opcode.operation = OpExtractShiftLeftRegister ->
           Shl32(And32(Shr32(b, opcode.bf_src_bit), mask), Lo(a) % 32)
      [] opcode.operation = OpRead -> Read(Add32(a, FromInt(opcode.immediate)))
      [] OTHER -> <<>>

StepResult(f, opcode) ==
    StepValue(opcode, GetRegister(f, opcode.src_a), GetRegister(f, opcode.src_b),
              GetBitfieldMask(opcode))

\* variant: a Branch case without the ASSERT on is_delay_slot
StepBranchAnywhere(f, opcode, base_address, delay) ==
    IF EvaluateBranchCondition(opcode.branch_condition, GetRegister(f, opcode.src_a))
    THEN IF opcode.branch_annul = 1
         THEN [f EXCEPT !.pc = base_address + GetBranchTarget(opcode),
                        !.ret = "true", !.taken = TRUE]
         ELSE [f EXCEPT !.delayed_pc = <<base_address + GetBranchTarget(opcode)>>,
                        !.ret = "delay_tail", !.taken = TRUE]
    ELSE [f EXCEPT !.ret = IF opcode.is_exit = 1 THEN "delay_exit" ELSE "true"]

\* variant: a Branch case whose target is relative to the following word
StepBranchFromNext(f, opcode, base_address, delay) ==
    IF delay THEN Fail(f, "assert_branch_in_delay_slot")
    ELSE IF EvaluateBranchCondition(opcode.branch_condition,
                                    GetRegister(f, opcode.src_a))
         THEN IF opcode.branch_annul = 1
              THEN [f EXCEPT !.pc = base_address + 4 + GetBranchTarget(opcode),
                             !.ret = "true", !.taken = TRUE]
              ELSE [f EXCEPT !.delayed_pc =
                                 <<base_address + 4 + GetBranchTarget(opcode)>>,
                             !.ret = "delay_tail", !.taken = TRUE]
         ELSE [f EXCEPT !.ret = IF opcode.is_exit = 1 THEN "delay_exit" ELSE "true"]

\* variant: a Branch case in which a taken branch with annul ends the step
\* loop after one more step
StepBranchStops(f, opcode, base_address, delay) ==
    IF delay THEN Fail(f, "assert_branch_in_delay_slot")
    ELSE IF EvaluateBranchCondition(opcode.branch_condition,
                                    GetRegister(f, opcode.src_a))
         THEN IF opcode.branch_annul = 1
              THEN [f EXCEPT !.pc = base_address + GetBranchTarget(opcode),
                             !.ret = "delay_exit", !.taken = TRUE]
              ELSE [f EXCEPT !.delayed_pc = <<base_address + GetBranchTarget(opcode)>>,
                             !.ret = "delay_tail", !.taken = TRUE]
         ELSE [f EXCEPT !.ret = IF opcode.is_exit = 1 THEN "delay_exit" ELSE "true"]

\* variant: a Branch case whose taken branch goes back to the branch itself
StepBranchToSelf(f, opcode, base_address, delay) ==
    IF delay THEN Fail(f, "assert_branch_in_delay_slot")
    ELSE IF EvaluateBranchCondition(opcode.branch_condition,
                                    GetRegister(f, opcode.src_a))
         THEN IF opcode.branch_annul = 1
              THEN [f EXCEPT !.pc = base_address, !.ret = "true", !.taken = TRUE]
              ELSE [f EXCEPT !.delayed_pc = <<base_address>>,
                             !.ret = "delay_tail", !.taken = TRUE]
         ELSE [f EXCEPT !.ret = IF opcode.is_exit = 1 THEN "delay_exit" ELSE "true"]

\* Step, the Branch case
StepBranch(f, opcode, base_address, delay) ==
    IF delay THEN Fail(f, "assert_branch_in_delay_slot")
    ELSE IF EvaluateBranchCondition(opcode.branch_condition,
                                    GetRegister(f, opcode.src_a))
         THEN IF opcode.branch_annul = 1
              THEN [f EXCEPT !.pc = base_address + GetBranchTarget(opcode),
                             !.ret = "true", !.taken = TRUE]
              ELSE [f EXCEPT !.delayed_pc = <<base_address + GetBranchTarget(opcode)>>,
                             !.ret = "delay_tail", !.taken = TRUE]
         ELSE [f EXCEPT !.ret = IF opcode.is_exit = 1 THEN "delay_exit" ELSE "true"]

\* Step, "if (opcode.is_exit)" after the switch
StepExit(h, opcode) ==
    IF h.err # "" THEN h
    ELSE [h EXCEPT !.ret = IF opcode.is_exit = 1 THEN "delay_exit" ELSE "true"]

\* Step, the non-branch cases: the result, then ProcessResult
StepProcess(g, opcode, result) ==
    IF result = <<>> THEN Fail(g, "unimplemented")
    ELSE StepExit(ProcessResult(g, opcode.result_operation, opcode.dst, result),
                  opcode)

StepOperation(f, opcode) ==
    StepProcess(IF opcode.operation = OpRead
                THEN [f EXCEPT !.rd = <<Add32(GetRegister(f, opcode.src_a),
                                              FromInt(opcode.immediate))>>]
                ELSE f,
                opcode, StepResult(f, opcode))

\* Step, the switch on opcode.operation
StepOpcode(f, opcode, base_address, delay) ==
    IF f.err # "" THEN f
    ELSE IF opcode.operation = OpBranch
         THEN StepBranch(f, opcode, base_address, delay)
         ELSE StepOperation(f, opcode)

\* InterpretedMacro::Step, one call, up to the Step(true) it makes or its return
Step(f0, code, delay) ==
    IF ~GetOpcodeOk(f0, code) THEN Fail(f0, "assert_pc")
    ELSE StepOpcode(AdvancePc(f0, delay), GetOpcode(f0, code), f0.pc, delay)

(***************************************************************************)
(* macro_jit_x64.cpp: JitMacro.  The emitted routine is kept as a sequence *)
(* of native blocks, one per emission routine call:                        *)
(*   "op"  the code of Compile_ALU .. Compile_ExtractShiftLeftRegister     *)
(*         with its ProcessResult (Compile_Read never completes),          *)
(*   "br"  cmp / je|jne taken / jmp end of Compile_Branch (taken = next),  *)
(*   "jmp" jmp(instruction_labels[target]),                                *)
(*   "ret" the epilogue.                                                   *)
(* labels[i] is the native position bound to instruction_labels[i], 0 when *)
(* the label was never bound; ids[i] is the id Xbyak gave the label when   *)
(* it was first bound or jumped to (1, 2, .. in that order, the labels     *)
(* taken and end of Compile_Branch included), 0 when it never was.         *)
(***************************************************************************)
MAX_REGISTERS == 16
MAX_CODE_SIZE == 65536

Native(t, opcode, idx, target) ==
    [t |-> t, op |-> opcode, idx |-> idx, target |-> target, end |-> 0, to |-> 0]

\* C++ integer division (truncation toward zero) of a byte address by 4
WordIndex(address) == IF address >= 0 THEN address \div 4 ELSE -((-address) \div 4)

\* the first use of instruction_labels[index] gives it the next label id;
\* beyond holds the labels past the end of the code that have one
UseLabel(c, index) ==
    IF index \notin DOMAIN c.ids
    THEN IF index \in c.beyond THEN c
         ELSE [c EXCEPT !.beyond = @ \cup {index}, !.next_id = @ + 1]
    ELSE IF c.ids[index] # 0 THEN c
    ELSE [c EXCEPT !.ids[index] = c.next_id, !.next_id = @ + 1]

\* L(instruction_labels[pc / 4]); pc += 4
BindLabel(c) ==
    [UseLabel(c, c.pc \div 4) EXCEPT !.labels[c.pc \div 4] = Len(c.out) + 1,
                                     !.pc = @ + 4]

Emit(c, block) == [c EXCEPT !.out = Append(@, block)]

\* Compile_Branch up to L(taken): je|jne(taken) and jmp(end) use two new labels
EmitBranch(c, opcode, idx) ==
    [Emit(c, Native("br", opcode, idx, 0)) EXCEPT !.next_id = @ + 2]

(***************************************************************************)
(* The length in bytes of what the emission routines write, by the x86-64  *)
(* encoding of each instruction they name.  jmp(end) of Compile_Branch is  *)
(* a short jump: L(end) throws "label is too far" when more than           *)
(* ShortJumpReach bytes lie between the two.  The sequences written by     *)
(* ABI_PushRegistersAndAdjustStack, CallFarFunction and                    *)
(* ABI_PopRegistersAndAdjustStack depend on the calling convention and on  *)
(* where the code buffer is mapped: their length is any number of bytes    *)
(* from AbiCallBytesMin (three pushes and pops, a rel32 call) to           *)
(* AbiCallBytesMax.                                                        *)
(***************************************************************************)
ShortJumpReach == 127
AbiCallBytesMin == 17
AbiCallBytesMax == 54

\* mov between a register and dword[REGISTERS + index * 4]: REX, opcode,
\* ModRM and a displacement byte unless the displacement is 0
RegisterAccessBytes(index) == IF index = 0 THEN 3 ELSE 4

\* shl / shr / sal / sar by an immediate; rex = 1 for RESULT (r13d)
ShiftBytes(rex, imm) == rex + (IF imm = 1 THEN 2 ELSE 3)

\* add / and with an immediate: one sign-extended byte when the value fits,
\* else four bytes, for eax in the short form without ModRM
ImmediateBytes(rex, v) ==
    IF \/ Hi(v) = 0 /\ Lo(v) <= 127
       \/ Hi(v) = Half - 1 /\ Lo(v) >= Half - 128
    THEN rex + 3 ELSE IF rex = 0 THEN 5 ELSE 7

\* Compile_ALU .. Compile_ExtractShiftLeftRegister up to Compile_ProcessResult
ValueBytes(opcode, mask) ==
    CASE opcode.operation = OpALU ->
           RegisterAccessBytes(opcode.src_a) + RegisterAccessBytes(opcode.src_b) +
           (CASE opcode.alu_operation \in {AluAdd, AluSubtract, AluXor, AluOr, AluAnd} -> 2
              [] opcode.alu_operation \in {AluAndNot, AluNand} -> 4
              [] OTHER -> 0) + 3
      [] opcode.operation = OpAddImmediate ->
           RegisterAccessBytes(opcode.src_a) +
           ImmediateBytes(1, FromInt(opcode.immediate))
      [] opcode.operation = OpExtractInsert ->
           RegisterAccessBytes(opcode.src_a) + RegisterAccessBytes(opcode.src_b) +
           ShiftBytes(0, opcode.bf_src_bit) + ImmediateBytes(0, mask) +
           ShiftBytes(0, opcode.bf_dst_bit) +
           ImmediateBytes(1, Not32(Shl32(mask, opcode.bf_dst_bit))) + 3
      [] opcode.operation = OpExtractShiftLeftImmediate ->
           RegisterAccessBytes(opcode.src_a) + RegisterAccessBytes(opcode.src_b) +
           3 + ImmediateBytes(1, mask) + ShiftBytes(1, opcode.bf_dst_bit)
      [] opcode.operation = OpExtractShiftLeftRegister ->
           RegisterAccessBytes(opcode.src_a) + RegisterAccessBytes(opcode.src_b) +
           ShiftBytes(1, opcode.bf_src_bit) + ImmediateBytes(1, mask) + 3

\* Compile_ProcessResult.  fetch is Compile_FetchParameter (a mov and an
\* inc), send is Compile_Send (four movs, a shr, shl, and_, add and the call
\* sequence), 3 is the mov of SetMethodAddress, 8 is sar and and_ of RESULT.
ProcessResultBytes(operation, reg, abi) ==
    LET fetch == 7
        send == abi + 27
    IN  CASE operation = IgnoreAndFetch -> fetch + RegisterAccessBytes(reg)
          [] operation = Move -> RegisterAccessBytes(reg)
          [] operation = MoveAndSetMethod -> RegisterAccessBytes(reg) + 3
          [] operation = FetchAndSend -> fetch + RegisterAccessBytes(reg) + send
          [] operation = MoveAndSend -> RegisterAccessBytes(reg) + send
          [] operation = FetchAndSetMethod -> fetch + RegisterAccessBytes(reg) + 3
          [] operation = MoveAndSetMethodFetchAndSend ->
               RegisterAccessBytes(reg) + 3 + fetch + send
          [] operation = MoveAndSetMethodSend ->
               RegisterAccessBytes(reg) + 3 + 8 + send

\* one native block; "br" is the load, cmp, je|jne and the short jmp
BlockBytes(n, abi) ==
    CASE n.t = "op" ->
           ValueBytes(n.op, GetBitfieldMask(n.op)) +
           ProcessResultBytes(n.op.result_operation, n.op.dst, abi)
      [] n.t = "br" -> RegisterAccessBytes(n.op.src_b) + 7
      [] n.t = "jmp" -> 5

\* the bytes from L(taken) to L(end): the blocks the delay slot emitted and
\* the five bytes of the near jmp to the target
RECURSIVE TakenPathBytes(_, _, _)
TakenPathBytes(out, from, abi) ==
    IF from > Len(out) THEN 5
    ELSE BlockBytes(out[from], abi) + TakenPathBytes(out, from + 1, abi)

\* Compile_Branch, from jmp(instruction_labels[jump_address / 4]) to L(end).
\* maybe_far records a taken path that fits the short jump for some lengths
\* of the call sequences only.
CloseBranch(c, brpos, opcode, idx, jump_index) ==
    IF c.err # "" THEN c
    ELSE [(IF jump_index \in 0..(MAX_CODE_SIZE - 1) THEN UseLabel(c, jump_index)
           ELSE c)
             EXCEPT !.out = [Append(@, Native("jmp", opcode, idx, jump_index))
                                EXCEPT ![brpos].end = Len(c.out) + 2],
                   !.err = IF TakenPathBytes(c.out, brpos + 1, AbiCallBytesMin)
                                  > ShortJumpReach
                           THEN "label_too_far" ELSE "",
                   !.maybe_far = @ \/ TakenPathBytes(c.out, brpos + 1, AbiCallBytesMax)
                                          > ShortJumpReach]

RECURSIVE Compile_NextInstruction(_, _)
RECURSIVE Compile_Opcode(_, _, _, _)
RECURSIVE Compile_Exit(_, _, _)
RECURSIVE CompileLoop(_, _)
\* JitMacro::Compile_NextInstruction
Compile_NextInstruction(c, code) ==
    IF c.err # "" THEN c
    ELSE IF ~(c.pc < Len(code) * 4) THEN [c EXCEPT !.err = "assert_pc"]
    ELSE Compile_Opcode(BindLabel(c), code, Decode(code[(c.pc \div 4) + 1]),
                        c.pc \div 4)

\* Compile_NextInstruction after "pc += 4": the emission routine of the
\* operation (nothing for Unused), then the exit delay slot.  Compile_Branch
\* takes jump_address from the already advanced pc.  Compile_Read evaluates
\* offsetof(JitState, maxwell3d->regs.reg_array) through a null JitState:
\* the constructor dies there and no routine exists.
Compile_Opcode(c1, code, opcode, idx) ==
    IF opcode.operation = OpBranch
    THEN Compile_Exit(
             CloseBranch(IF opcode.branch_annul = 0
                         THEN Compile_NextInstruction(
                                  EmitBranch(c1, opcode, idx), code)
                         ELSE EmitBranch(c1, opcode, idx),
                         Len(c1.out) + 1, opcode, idx,
                         WordIndex(c1.pc + GetBranchTarget(opcode))),
             code, opcode)
    ELSE IF opcode.operation = OpRead THEN [c1 EXCEPT !.err = "sigsegv"]
    ELSE Compile_Exit(IF opcode.operation = OpUnused THEN c1
                      ELSE Emit(c1, Native("op", opcode, idx, 0)),
                      code, opcode)

\* Compile_NextInstruction, "if (opcode.is_exit)": the delay slot is compiled
\* in line and the caller is told to stop
Compile_Exit(c2, code, opcode) ==
    IF c2.err # "" THEN c2
    ELSE IF opcode.is_exit = 1
    THEN [Compile_NextInstruction(c2, code) EXCEPT !.keep = FALSE]
    ELSE [c2 EXCEPT !.keep = TRUE]

CompileLoopNext(d, code) ==
    IF d.err # "" \/ ~d.keep THEN d ELSE CompileLoop(d, code)

\* JitMacro::Compile, the while (keep_executing) loop
CompileLoop(c, code) == CompileLoopNext(Compile_NextInstruction(c, code), code)

\* Xbyak ready(): a jmp to a label of instruction_labels that was never
\* bound throws
UndefinedLabel(c) ==
    \E i \in 1..Len(c.out) :
        /\ c.out[i].t = "jmp"
        /\ c.out[i].target \in 0..(MAX_CODE_SIZE - 1)
        /\ \/ c.out[i].target \notin DOMAIN c.labels
           \/ c.labels[c.out[i].target] = 0

\* instruction_labels[jump_address / 4] with an index outside the array of
\* MAX_CODE_SIZE labels: the jmp is emitted from memory that is no label
LabelOutsideArray(c) ==
    \E i \in 1..Len(c.out) :
        /\ c.out[i].t = "jmp"
        /\ c.out[i].target \notin 0..(MAX_CODE_SIZE - 1)

\* the JitMacro object after its constructor.  err is what ends the
\* constructor whatever the bytes outside instruction_labels hold and
\* whatever the length of the call sequences.  env is the index in
\* JitEnvironments of the addresses the routine has read so far, 0 while it
\* has read none.
JitObject(c, code) ==
    [program |-> Append(c.out, Native("ret", Decode(Zero32), 0, 0)),
     labels |-> c.labels, ids |-> c.ids,
     registers |-> [i \in 0..(MAX_REGISTERS - 1) |-> Zero32],
     parameters |-> <<>>, pc |-> c.pc, env |-> 0,
     err |-> IF c.err # "" THEN c.err
             ELSE IF UndefinedLabel(c) THEN "label_not_found" ELSE "",
     outside |-> LabelOutsideArray(c),
     maybe_far |-> c.maybe_far]

\* how the constructor of the JitMacro can end: "" when it returns.  The
\* access outside instruction_labels is undefined: the process is killed in
\* the constructor, or the heap is found corrupted, or the bytes found are
\* taken for a label that has no bound id ("label is not found"), or they
\* are taken for a label whose id this construction binds: the constructor
\* then returns with the jmp bound to that place (o.err = "").
ConstructorOutcomes(o) ==
    {o.err} \cup (IF o.outside THEN {"sigsegv", "abort", "label_not_found"} ELSE {})
            \cup (IF o.maybe_far THEN {"label_too_far"} ELSE {})

\* the native positions a label id of the routine is bound to: the
\* instruction labels, and taken and end of every Compile_Branch
LabelPositions(o) ==
    {o.labels[i] : i \in {j \in DOMAIN o.labels : o.labels[j] # 0}}
    \cup UNION {{i + 1, o.program[i].end} :
                   i \in {j \in DOMAIN o.program : o.program[j].t = "br"}}

\* the jmps emitted from memory outside instruction_labels
OutsideJumps(o) ==
    {i \in DOMAIN o.program :
        o.program[i].t = "jmp" /\ o.program[i].target \notin 0..(MAX_CODE_SIZE - 1)}

\* the objects a returning constructor can leave: each jmp emitted from
\* memory outside instruction_labels is bound to one of the label positions
ConstructedObjects(o) ==
    {[o EXCEPT !.program = [i \in DOMAIN o.program |->
                               IF i \in DOMAIN f
                               THEN [o.program[i] EXCEPT !.to = f[i]]
                               ELSE o.program[i]]] :
        f \in [OutsideJumps(o) -> LabelPositions(o)]}

\* JitMacro::JitMacro / JitMacro::Compile
NewJitMacro(code) ==
    JitObject(CompileLoop([pc |-> 0, out |-> <<>>,
                           labels |-> [i \in 0..(Len(code) - 1) |-> 0],
                           ids |-> [i \in 0..(Len(code) - 1) |-> 0],
                           next_id |-> 1, beyond |-> {}, err |-> "", maybe_far |-> FALSE, keep |-> TRUE], code),
              code)

\* JitMacro::Compile, the prologue: xor_ of NEXT_PARAMETER, RESULT, METHOD_ADDRESS
JitPrologue ==
    [npc |-> 1, NEXT_PARAMETER |-> 0, RESULT |-> Zero32, METHOD_ADDRESS |-> Zero32]

\* JitMacro::Execute up to the call of program(&state)
JitExecuteEntry(o, parameters) == [o EXCEPT !.parameters = parameters]

\* Compile_GetRegister: mov(reg, dword[REGISTERS + index * 4])
Compile_GetRegister(x, index) == x.registers[index]

\* SetRegister lambda of Compile_ProcessResult: mov(dword[REGISTERS + reg * 4], result)
JitSetRegister(x, reg, result) == [x EXCEPT !.registers[reg] = result]

\* SetMethodAddress lambda: mov(METHOD_ADDRESS, RESULT)
JitSetMethodAddress(x) == [x EXCEPT !.METHOD_ADDRESS = x.RESULT]

\* Compile_FetchParameter: edi = dword[PARAMETERS + NEXT_PARAMETER * 4] where
\* PARAMETERS = &state.parameters, so the load does not read the parameter
\* list: stray is what those bytes hold (LoadedValue)
Compile_FetchParameter(x) == [x EXCEPT !.NEXT_PARAMETER = @ + 1]

\* Compile_Send, value being what ABI_PARAM3 receives from reg
Compile_Send(x, value) ==
    [x EXCEPT !.sent = Append(@, <<Bits(x.METHOD_ADDRESS, 20, 12), value>>),
              !.METHOD_ADDRESS =
                  Add32(@, And32(Shl32(@, 6), Shl32(<<0, 63>>, 20)))]

\* Compile_ProcessResult.  Compile_Send(Compile_FetchParameter()) passes edi:
\* Compile_Send first emits mov(ABI_PARAM1, qword[STATE]), and ABI_PARAM1 is
\* rdi under the System V calling convention, so mov(ABI_PARAM3, edi) copies
\* the low 32 bits of state.maxwell3d (engine), not the value loaded.
Compile_ProcessResult(x, operation, reg, stray, engine) ==
    CASE operation = IgnoreAndFetch ->
           JitSetRegister(Compile_FetchParameter(x), reg, stray)
      [] operation = Move -> JitSetRegister(x, reg, x.RESULT)
      [] operation = MoveAndSetMethod ->
           JitSetMethodAddress(JitSetRegister(x, reg, x.RESULT))
      [] operation = FetchAndSend ->
           Compile_Send(JitSetRegister(Compile_FetchParameter(x), reg, stray), x.RESULT)
      [] operation = MoveAndSend ->
           Compile_Send(JitSetRegister(x, reg, x.RESULT), x.RESULT)
      [] operation = FetchAndSetMethod ->
           JitSetMethodAddress(JitSetRegister(Compile_FetchParameter(x), reg, stray))
      [] operation = MoveAndSetMethodFetchAndSend ->
           Compile_Send(Compile_FetchParameter(
                            JitSetMethodAddress(JitSetRegister(x, reg, x.RESULT))),
                        engine)
      [] operation = MoveAndSetMethodSend ->
           LET y == JitSetMethodAddress(JitSetRegister(x, reg, x.RESULT))
               v == <<0, Bits(y.RESULT, 12, 6)>>
           IN  Compile_Send([y EXCEPT !.RESULT = v], v)

\* Compile_ALU .. Compile_ExtractShiftLeftRegister: the value left in RESULT,
\* from a = the load of registers[src_a] and b = the load of registers[src_b].
\* Compile_ALU emits nothing for an operation outside its switch: RESULT = a.
JitValue(opcode, a, b, mask) ==
    CASE opcode.operation = OpALU ->
           CASE opcode.alu_operation = AluAdd      -> Add32(a, b)
             [] opcode.alu_operation = AluSubtract -> Sub32(a, b)
             [] opcode.alu_operation = AluXor      -> Xor32(a, b)
             [] opcode.alu_operation = AluOr       -> Or32(a, b)
             [] opcode.alu_operation = AluAnd      -> And32(a, b)
             [] opcode.alu_operation = AluAndNot   -> And32(a, Not32(b))
             [] opcode.alu_operation = AluNand     -> Not32(And32(a, b))
             [] OTHER                              -> a
      [] opcode.operation = OpAddImmediate -> Add32(a, FromInt(opcode.immediate))
      [] opcode.operation = OpExtractInsert ->
           Or32(And32(a, Not32(Shl32(mask, opcode.bf_dst_bit))),
                Shl32(And32(Shr32(b, opcode.bf_src_bit), mask), opcode.bf_dst_bit))
      [] opcode.operation = OpExtractShiftLeftImmediate ->
           Shl32(And32(Shl32(b, Lo(a) % 32), mask), opcode.bf_dst_bit)
      [] opcode.operation = OpExtractShiftLeftRegister ->
           Shr32(And32(Shl32(b, opcode.bf_src_bit), mask), Lo(a) % 32)

JitResult(x, opcode) ==
    JitValue(opcode, Compile_GetRegister(x, opcode.src_a),
             Compile_GetRegister(x, opcode.src_b), GetBitfieldMask(opcode))

\* One native block of the routine.  x carries the machine registers, the
\* register array of JitState and what the block did (sent, rd, halt, taken).
JitBlock(x, n, labels, stray, engine) ==
    CASE n.t = "op" ->
           Compile_ProcessResult(
               [x EXCEPT !.RESULT = JitResult(x, n.op), !.npc = @ + 1],
               n.op.result_operation, n.op.dst, stray, engine)
      [] n.t = "br" ->
           IF EvaluateBranchCondition(n.op.branch_condition,
                                      Compile_GetRegister(x, n.op.src_b))
           THEN [x EXCEPT !.npc = @ + 1, !.taken = TRUE]
           ELSE [x EXCEPT !.npc = n.end]
      [] n.t = "jmp" -> [x EXCEPT !.npc = IF n.to # 0 THEN n.to
                                          ELSE labels[n.target]]
      [] n.t = "ret" -> [x EXCEPT !.halt = TRUE]

(***************************************************************************)
(* Code words and parameter lists the command stream supplies.             *)
(***************************************************************************)
\* a raw word from its fields; upper is bits 14..31 (immediate, or src_b and
\* alu_operation, or src_b and the bitfield parameters)
Word(operation, result_operation, is_exit, dst, src_a, upper) ==
    <<upper \div 4,
      operation + 16 * result_operation + 128 * is_exit + 256 * dst +
      2048 * src_a + 16384 * (upper % 4)>>

AddImm(result_operation, is_exit, dst, src_a, immediate) ==
    Word(OpAddImmediate, result_operation, is_exit, dst, src_a, immediate % 262144)

BranchWord(cond, annul, is_exit, src_a, immediate) ==
    Word(OpBranch, cond + 2 * annul, is_exit, 0, src_a, immediate % 262144)

AluWord(result_operation, is_exit, dst, src_a, src_b, alu) ==
    Word(OpALU, result_operation, is_exit, dst, src_a, src_b + 8 * alu)

Nop == AddImm(Move, 0, 0, 0, 0)
ExitNop == AddImm(Move, 1, 0, 0, 0)
Inc2 == AddImm(Move, 0, 2, 2, 1)              \* r2 = r2 + 1
SendR1 == AddImm(MoveAndSend, 0, 0, 1, 0)     \* Send(r1)
AddImm5Exit == AddImm(Move, 1, 1, 0, 5)       \* r1 = r0 + 5, exit

\* dst = 0 under each of the eight result operations, result = r1 + 3
ZeroDst(result_operation) ==
    AddImm(result_operation, IF result_operation = Move THEN 1 ELSE 0, 0, 1, 3)
SendR0 == AddImm(MoveAndSend, 0, 2, 0, 1)      \* r2 = r0 + 1; Send(r2)
ResultWords == {ZeroDst(r) : r \in 0..7} \cup {SendR0}

\* branches on r0 (always zero in the interpreter) and on r1, with Inc2 as
\* the instruction that follows them
BranchWords ==
    {BranchWord(CondZero, 0, 0, 0, 2), BranchWord(CondZero, 1, 0, 0, 2),
     BranchWord(CondNotZero, 0, 0, 1, -1), Inc2, ExitNop,
     AddImm(MoveAndSend, 1, 1, 1, -1)}

\* a word of the Unused operation, and r3 = AddWithCarry(r0, r0); Send(r3)
UnusedWord == Word(OpUnused, Move, 0, 0, 0, 0)
CarryWord == AluWord(MoveAndSend, 0, 3, 0, 0, AluAddWithCarry)

\* words for the JIT routine: writes of r0, a method address with both
\* fields set, a send, a fetch, a branch, and the two unimplemented words
JitWords ==
    {AddImm(Move, 0, 0, 0, 3), AddImm(MoveAndSetMethod, 0, 2, 0, 4101),
     AddImm(MoveAndSend, 1, 3, 0, 0), AddImm(IgnoreAndFetch, 0, 1, 0, 0),
     BranchWord(CondZero, 1, 0, 1, 1), ExitNop, UnusedWord, CarryWord}

UploadWords == {SendR1, ExitNop}

\* words of programs run on both backends: no branch, every operation and
\* result operation implemented
EquivWords ==
    {AddImm(Move, 0, 2, 1, 1), SendR1, AddImm(IgnoreAndFetch, 0, 3, 0, 0),
     ExitNop, Nop}

\* ExtractInsert with its three bitfield parameters
ExtractInsertWord(is_exit, dst, src_a, src_b, bf_src_bit, bf_size, bf_dst_bit) ==
    Word(OpExtractInsert, Move, is_exit, dst, src_a,
         src_b + 8 * bf_src_bit + 256 * bf_size + 8192 * bf_dst_bit)

\* r2 = a; r3 = b; r4 = ExtractInsert(r2, r3), exit; no-op.  The immediates
\* are 0xFFFFFF00, 0xFFFF5A5A, 0 and 0x1234, 0xFFFF5A5A, 0x1FFFF.  bf_size
\* stops at 30: at 31 GetBitfieldMask evaluates INT_MIN - 1 in int.
BitfieldPrograms ==
    {<<AddImm(Move, 0, 2, 0, a), AddImm(Move, 0, 3, 0, b),
       ExtractInsertWord(1, 4, 2, 3, src_bit, size, dst_bit), Nop>> :
        a \in {-256, -42406, 0}, b \in {4660, -42406, 131071},
        src_bit \in {0, 4, 31}, size \in {0, 1, 8, 30}, dst_bit \in {0, 8, 31}}

\* a Branch on a register that is 0 in both backends (src_a = src_b = the
\* low bits of the immediate), then r4 = r4 + 1 or an exiting no-op, Send(r4),
\* Send(r4) with the exit bit, no-op
Inc4 == AddImm(Move, 0, 4, 4, 1)
SendR4 == AddImm(MoveAndSend, 0, 0, 4, 0)
SendR4Exit == AddImm(MoveAndSend, 1, 0, 4, 0)
BranchPrograms ==
    {<<BranchWord(cond, annul, is_exit, immediate, immediate), second,
       SendR4, SendR4Exit, Nop>> :
        cond \in {CondZero, CondNotZero}, annul \in {0, 1}, is_exit \in {0, 1},
        immediate \in {2, 3}, second \in {Inc4, ExitNop}}

P5 == <<0, 5>>
PAllOnes == <<65535, 65532>>      \* + 3 = 0xFFFFFFFF
PWrap == <<0, 8188>>              \* + 3 = 0x1FFF: address 0xFFF, increment 1
ParamLists == {<<P5>>, <<PAllOnes, P5>>, <<PWrap, PAllOnes, P5>>}

(***************************************************************************)
(* The addresses of one run of the process, 64-bit values written as       *)
(* <<high dword, low dword>>: maxwell3d is &maxwell3d, heap is where the    *)
(* buffers of the parameter vectors lie, object is where the JitMacro      *)
(* objects lie, reserved says whether an empty parameter vector arrives    *)
(* with a buffer (capacity() > 0), padding is what the four bytes after a  *)
(* Label's id hold.  They are inputs of the run like the code words: the   *)
(* two environments below stand for any addresses (0x7FFF2436BC30,         *)
(* 0x5589BE30BEA0, 0x7F6F8B63D038 and 0x5589C1FB8200, 0x55B2BB8687D0,       *)
(* 0x7F12E35274E0).                                                        *)
(***************************************************************************)
JitEnvironments ==
    <<[maxwell3d |-> <<<<0, 32767>>, <<9270, 48176>>>>,
       heap |-> <<<<0, 21897>>, <<48688, 48800>>>>,
       object |-> <<<<0, 32623>>, <<35683, 53304>>>>,
       reserved |-> FALSE, padding |-> Zero32],
      [maxwell3d |-> <<<<0, 21897>>, <<49659, 33280>>>>,
       heap |-> <<<<0, 21938>>, <<48006, 34768>>>>,
       object |-> <<<<0, 32530>>, <<58194, 29920>>>>,
       reserved |-> TRUE, padding |-> P5]>>

\* parameters.data() of the vector JitMacro::Execute receives in the call
\* number call: null for a vector that never allocated
ParametersData(env, parameters, call) ==
    IF parameters = <<>> /\ ~env.reserved THEN <<Zero32, Zero32>>
    ELSE <<env.heap[1], Add32(env.heap[2], FromInt(32 * call))>>

\* the address of the label manager of the JitMacro compiled for method
LabelManagerOf(env, method) ==
    <<env.object[1], Add32(env.object[2], FromInt(2097152 * method))>>

\* dword[&state.parameters + 4 * next], the load of Compile_FetchParameter:
\* the two halves of state.parameters = data, then instruction_labels, 16
\* bytes a label: the manager pointer and the id of a bound label, zeros
\* for a label never used, and the padding
LoadedValue(o, data, manager, padding, next) ==
    IF next = 0 THEN data[2]
    ELSE IF next = 1 THEN data[1]
    ELSE LET index == (next - 2) \div 4
             field == (next - 2) % 4
         IN  IF field = 3 THEN padding
             ELSE IF index \notin DOMAIN o.labels \/ o.labels[index] = 0
             THEN Zero32
             ELSE CASE field = 0 -> manager[2]
                    [] field = 1 -> manager[1]
                    [] field = 2 -> FromInt(o.ids[index])

RECURSIVE SeqsUpTo(_, _)
SeqsUpTo(S, n) ==
    IF n = 0 THEN {<<>>}
    ELSE LET shorter == SeqsUpTo(S, n - 1)
         IN  shorter \cup {Append(q, w) : q \in shorter, w \in S}

\* the single-instruction program, alone and with a no-op delay-slot word
AddImmediatePrograms == {<<AddImm5Exit>>, <<AddImm5Exit, Nop>>}

\* fetches into registers: r3 = fetch; then r4 or r0 = fetch with a Send of
\* r3 or with r3 as method address, exit; no-op
FetchPrograms ==
    {<<AddImm(IgnoreAndFetch, 0, 3, 0, 0), AddImm(second, 1, dst, 3, 0), Nop>> :
        second \in {IgnoreAndFetch, FetchAndSend, FetchAndSetMethod}, dst \in {0, 4}}

\* a result used as method address and sent at once: an optional earlier
\* method address 7 (kept in r3), then dst = r1 or r0 + immediate under
\* MoveAndSetMethodFetchAndSend or MoveAndSetMethodSend with the exit bit;
\* no-op.  The immediates are 0x1005, 0x1FFFF and 0xFFFFFFFF.
SetOld == AddImm(MoveAndSetMethod, 0, 3, 0, 7)
SetSendPrograms ==
    {<<first, AddImm(operation, 1, dst, src_a, immediate), Nop>> :
        first \in {Nop, SetOld},
        operation \in {MoveAndSetMethodFetchAndSend, MoveAndSetMethodSend},
        dst \in {0, 2}, src_a \in {0, 1}, immediate \in {4101, 131071, -1}}

\* r2 = a; r3 = b; r4 = alu(r2, r3), exit; no-op.  The immediates are
\* 0xFFFFFFFF, 0, 0x1FFFF, 0xFFFF5A5A, 0xFFFE0000 and 1, 0, 0xFFFFFFFF,
\* 0x1234, 0xFFFE0000.
AluOperations == {AluAdd, AluSubtract, AluXor, AluOr, AluAnd, AluAndNot, AluNand}
AluPrograms ==
    {<<AddImm(Move, 0, 2, 0, a), AddImm(Move, 0, 3, 0, b),
       AluWord(Move, 1, 4, 2, 3, alu), Nop>> :
        a \in {-1, 0, 131071, -42406, -131072}, b \in {1, 0, -1, 4660, -131072},
        alu \in AluOperations}

\* r2 = shift; r3 = b; r4 = ExtractShiftLeftImmediate(r2, r3) or
\* ExtractShiftLeftRegister(r2, r3), exit; no-op.  bit is bf_dst_bit for the
\* first operation and bf_src_bit for the second (the other field is 0); the
\* shift amounts in r2 stay below 32.
ExtractShiftWord(operation, is_exit, dst, src_a, src_b, bf_src_bit, bf_size, bf_dst_bit) ==
    Word(operation, Move, is_exit, dst, src_a,
         src_b + 8 * bf_src_bit + 256 * bf_size + 8192 * bf_dst_bit)
ExtractShiftPrograms ==
    {<<AddImm(Move, 0, 2, 0, shift), AddImm(Move, 0, 3, 0, b),
       ExtractShiftWord(operation, 1, 4, 2, 3,
                        IF operation = OpExtractShiftLeftRegister THEN bit ELSE 0,
                        size,
                        IF operation = OpExtractShiftLeftImmediate THEN bit ELSE 0),
       Nop>> :
        operation \in {OpExtractShiftLeftImmediate, OpExtractShiftLeftRegister},
        shift \in {0, 4, 31}, b \in {4660, -42406, 131071},
        size \in {0, 1, 8, 30}, bit \in {0, 8, 31}}

\* an operation the interpreter does not implement, before an exit and in
\* the delay slot of one
UnimplementedPrograms ==
    {<<w, ExitNop, Nop>> : w \in {UnusedWord, CarryWord}} \cup
    {<<ExitNop, w>> : w \in {UnusedWord, CarryWord}}

\* words of programs whose branches all go forward: a taken branch on r0 to
\* the following word (its own delay slot), a taken annulled branch two
\* words ahead, a branch on r0 that is not taken and carries the exit bit,
\* an exit, an increment, a parameter fetch and an Unused word; and a taken
\* annulled branch to itself
ForwardWords ==
    {BranchWord(CondZero, 0, 0, 0, 1), BranchWord(CondZero, 1, 0, 0, 2),
     BranchWord(CondNotZero, 0, 1, 0, 1), ExitNop, Inc2,
     AddImm(IgnoreAndFetch, 0, 3, 0, 0), UnusedWord}
SelfBranch == BranchWord(CondZero, 1, 0, 0, 0)
TerminationWords == ForwardWords \cup {SelfBranch}
TerminationParamLists == {<<P5>>, <<PAllOnes, P5>>}

\* programs whose compilation can end inside the JitMacro constructor: a
\* Read word; an annulled branch 131072 words back, outside instruction_labels;
\* a branch whose delay slot holds two ExtractInsert words that fetch and
\* send, and one whose delay slot holds two AddImmediate words that send
JitFailingPrograms ==
    {<<Word(OpRead, Move, 0, 1, 0, 0), ExitNop, Nop>>,
     <<ExitNop, Word(OpRead, Move, 0, 1, 0, 0)>>,
     <<BranchWord(CondZero, 1, 0, 0, -131072), ExitNop, Nop>>,
     <<BranchWord(CondZero, 0, 0, 0, 3),
       Word(OpExtractInsert, FetchAndSend, 1, 1, 1, 42010),
       Word(OpExtractInsert, MoveAndSetMethodFetchAndSend, 0, 2, 1, 42010),
       ExitNop, Nop>>,
     <<BranchWord(CondZero, 0, 0, 0, 3), AddImm(MoveAndSend, 1, 1, 0, 1),
       AddImm(MoveAndSend, 0, 2, 0, 2), ExitNop, Nop>>}

InterpPrograms ==
    ((SeqsUpTo(ResultWords, MaxCode) \cup SeqsUpTo(BranchWords, MaxCode)) \ {<<>>})
        \cup AddImmediatePrograms \cup FetchPrograms \cup UnimplementedPrograms
InterpParamLists == ParamLists \cup {<<PWrap>>}
\* with the programs above, five loads in a row: r1 .. r5 = fetch, the exit
\* on the fourth
JitPrograms ==
    (SeqsUpTo(JitWords, MaxCode) \ {<<>>}) \cup JitFailingPrograms
        \cup {<<AddImm(IgnoreAndFetch, 0, 1, 0, 0), AddImm(IgnoreAndFetch, 0, 2, 0, 0),
                AddImm(IgnoreAndFetch, 0, 3, 0, 0), AddImm(IgnoreAndFetch, 1, 4, 0, 0),
                AddImm(IgnoreAndFetch, 0, 5, 0, 0)>>}
EquivPrograms == SeqsUpTo(EquivWords, MaxCode) \ {<<>>}

(***************************************************************************)
(* macro.cpp: MacroEngine, and the position of the running Execute.        *)
(***************************************************************************)
Idle == ~crashed /\ running = NoMethod

\* the Execute calls made so far for the methods of S
RECURSIVE CallsMade(_)
CallsMade(S) ==
    IF S = {} THEN 0
    ELSE LET m == CHOOSE x \in S : TRUE
         IN  calls[m] + CallsMade(S \ {m})

\* variant: a map assignment that keeps no other key
PutAlone(map, key, value) == [k \in {key} |-> value]

\* std::unordered_map insert-or-assign
Put(map, key, value) ==
    [k \in (DOMAIN map) \cup {key} |-> IF k = key THEN value ELSE map[k]]

\* MacroInterpreter::Compile / MacroJitX64::Compile
Compile(code) ==
    IF backend = "interp" THEN NewInterpretedMacro ELSE NewJitMacro(code)

\* variant: an AddCode that inserts the word at the front of the buffer
AddCodeAtFront(method, data) ==
    /\ Idle
    /\ IF method \in DOMAIN uploaded_macro_code
       THEN Len(uploaded_macro_code[method]) < MaxCode ELSE TRUE
    /\ uploaded_macro_code' =
           Put(uploaded_macro_code, method,
               IF method \in DOMAIN uploaded_macro_code
               THEN <<data>> \o uploaded_macro_code[method] ELSE <<data>>)
    /\ UNCHANGED <<backend, macro_cache, running, is_delay_slot, exit_pending, jit,
                   writes, reads, executed, compile_count, calls, called, cache_hit,
                   outcome, crashed, ref>>

\* variant: an AddCode that drops the method's cache entry
AddCodeInvalidates(method, data) ==
    /\ Idle
    /\ IF method \in DOMAIN uploaded_macro_code
       THEN Len(uploaded_macro_code[method]) < MaxCode ELSE TRUE
    /\ uploaded_macro_code' =
           Put(uploaded_macro_code, method,
               IF method \in DOMAIN uploaded_macro_code
               THEN Append(uploaded_macro_code[method], data) ELSE <<data>>)
    /\ macro_cache' = [m \in (DOMAIN macro_cache) \ {method} |-> macro_cache[m]]
    /\ UNCHANGED <<backend, running, is_delay_slot, exit_pending, jit,
                   writes, reads, executed, compile_count, calls, called, cache_hit,
                   outcome, crashed, ref>>

\* MacroEngine::AddCode
AddCode(method, data) ==
    /\ Idle
    /\ IF method \in DOMAIN uploaded_macro_code
       THEN Len(uploaded_macro_code[method]) < MaxCode ELSE TRUE
    /\ uploaded_macro_code' =
           Put(uploaded_macro_code, method,
               IF method \in DOMAIN uploaded_macro_code
               THEN Append(uploaded_macro_code[method], data) ELSE <<data>>)
    /\ UNCHANGED <<backend, macro_cache, running, is_delay_slot, exit_pending, jit,
                   writes, reads, executed, compile_count, calls, called, cache_hit,
                   outcome, crashed, ref>>

\* MacroEngine::Execute from "macro_cache[method] = Compile(...)" (on a miss)
\* to the entry of CachedMacro::Execute; compiled is the object found or built
ExecuteCached(method, parameters, miss, compiled) ==
    /\ compile_count' = IF miss THEN [compile_count EXCEPT ![method] = @ + 1]
                        ELSE compile_count
    /\ writes' = <<>>
    /\ reads' = <<>>
    /\ executed' = <<>>
    /\ is_delay_slot' = FALSE
    /\ exit_pending' = FALSE
    /\ jit' = JitPrologue
    /\ \E e \in (IF backend = "jit" /\ miss THEN ConstructorOutcomes(compiled)
                ELSE {""}) :
           IF e # ""
           THEN /\ crashed' = TRUE
                /\ outcome' = e
                /\ UNCHANGED <<macro_cache, running>>
           ELSE /\ crashed' = FALSE
                /\ outcome' = "running"
                /\ running' = method
                /\ \E built \in (IF backend = "jit" /\ miss
                                 THEN ConstructedObjects(compiled)
                                 ELSE {compiled}) :
                       macro_cache' =
                           Put(macro_cache, method,
                               IF backend = "interp"
                               THEN InterpExecuteEntry(built, parameters)
                               ELSE JitExecuteEntry(built, parameters))

\* variant: an Execute that compiles without looking into macro_cache
ExecuteAlwaysCompiles(method, parameters) ==
    /\ Idle
    /\ CallsMade(Methods) < MaxExecutes
    /\ calls' = [calls EXCEPT ![method] = @ + 1]
    /\ called' = method
    /\ cache_hit' = (method \in DOMAIN macro_cache)
    /\ UNCHANGED <<backend, uploaded_macro_code, ref>>
    /\ IF method \notin DOMAIN uploaded_macro_code
       THEN /\ outcome' = "not_uploaded"
            /\ UNCHANGED <<macro_cache, running, is_delay_slot, exit_pending,
                           jit, writes, reads, executed, compile_count, crashed>>
       ELSE ExecuteCached(method, parameters, TRUE,
                          Compile(uploaded_macro_code[method]))

\* variant: an Execute that reaches the upload buffer through operator[]
ExecuteInsertsBuffer(method, parameters) ==
    /\ Idle
    /\ CallsMade(Methods) < MaxExecutes
    /\ calls' = [calls EXCEPT ![method] = @ + 1]
    /\ called' = method
    /\ cache_hit' = (method \in DOMAIN macro_cache)
    /\ UNCHANGED <<backend, ref>>
    /\ IF method \in DOMAIN macro_cache
       THEN /\ ExecuteCached(method, parameters, FALSE, macro_cache[method])
            /\ UNCHANGED uploaded_macro_code
       ELSE IF method \notin DOMAIN uploaded_macro_code
            THEN /\ uploaded_macro_code' = Put(uploaded_macro_code, method, <<>>)
                 /\ ExecuteCached(method, parameters, TRUE, Compile(<<>>))
            ELSE /\ ExecuteCached(method, parameters, TRUE,
                                  Compile(uploaded_macro_code[method]))
                 /\ UNCHANGED uploaded_macro_code

\* MacroEngine::Execute, up to the first instruction of the macro
Execute(method, parameters) ==
    /\ Idle
    /\ CallsMade(Methods) < MaxExecutes
    /\ calls' = [calls EXCEPT ![method] = @ + 1]
    /\ called' = method
    /\ cache_hit' = (method \in DOMAIN macro_cache)
    /\ UNCHANGED <<backend, uploaded_macro_code, ref>>
    /\ IF method \in DOMAIN macro_cache
       THEN ExecuteCached(method, parameters, FALSE, macro_cache[method])
       ELSE IF method \notin DOMAIN uploaded_macro_code
            THEN /\ outcome' = "not_uploaded"
                 /\ UNCHANGED <<macro_cache, running, is_delay_slot, exit_pending,
                                jit, writes, reads, executed, compile_count, crashed>>
            ELSE ExecuteCached(method, parameters, TRUE,
                               Compile(uploaded_macro_code[method]))

\* the record of one executed instruction: its word index, whether it ran as
\* a delay-slot step, whether it was a taken branch
Executed(idx, delay, taken) == [idx |-> idx, delay |-> delay, taken |-> taken]

\* what one Step call leaves behind.  f is the frame after the call, halts
\* says that the loop of InterpretedMacro::Execute ends with it, and then
\* ASSERT(next_parameter_index == parameters.size()) is evaluated.
InterpAfterStep(m, before, f, fetched, halts) ==
    /\ macro_cache' = [macro_cache EXCEPT ![m] = Object(f)]
    /\ writes' = writes \o f.sent
    /\ reads' = reads \o f.rd
    /\ executed' = IF fetched
                   THEN Append(executed,
                               Executed(before.pc \div 4, is_delay_slot, f.taken))
                   ELSE executed
    /\ crashed' = (f.err # "" \/ (halts /\ f.next_parameter_index # Len(f.parameters)))
    /\ outcome' = IF f.err # "" THEN f.err
                  ELSE IF ~halts THEN "running"
                  ELSE IF f.next_parameter_index = Len(f.parameters) THEN "halted"
                  ELSE "assert_parameters"
    /\ running' = IF halts /\ f.next_parameter_index = Len(f.parameters)
                  THEN NoMethod ELSE m
    /\ is_delay_slot' = (f.err = "" /\ f.ret \in {"delay_tail", "delay_exit"})
    /\ exit_pending' = (f.err = "" /\ ~halts /\ (exit_pending \/ f.ret = "delay_exit"))

InterpStepOf(m, before, code, f) ==
    InterpAfterStep(m, before, f,
                    GetOpcodeOk(before, code) /\
                    f.err \notin {"assert_is_delay_slot", "assert_branch_in_delay_slot"},
                    f.err = "" /\ f.ret = "true" /\ exit_pending)

\* InterpretedMacro::Execute, one Step call of the loop (or of the recursion)
InterpStep ==
    /\ ~crashed /\ running # NoMethod /\ backend = "interp"
    /\ Len(executed) < MaxSteps
    /\ \E f \in {Step(Frame(macro_cache[running]), uploaded_macro_code[running],
                       is_delay_slot)} :
           InterpStepOf(running, macro_cache[running], uploaded_macro_code[running], f)
    /\ UNCHANGED <<backend, uploaded_macro_code, jit, compile_count, calls, called,
                   cache_hit, ref>>

JitAfterBlock(m, n, e, y) ==
    /\ macro_cache' = [macro_cache EXCEPT ![m].registers = y.registers,
                                          ![m].env = e]
    /\ jit' = [npc |-> y.npc, NEXT_PARAMETER |-> y.NEXT_PARAMETER,
               RESULT |-> y.RESULT, METHOD_ADDRESS |-> y.METHOD_ADDRESS]
    /\ writes' = writes \o y.sent
    /\ reads' = reads \o y.rd
    /\ executed' = IF n.t \in {"op", "br"}
                   THEN Append(executed, Executed(n.idx, FALSE, y.taken))
                   ELSE executed
    /\ running' = IF y.halt THEN NoMethod ELSE m
    /\ outcome' = IF y.halt THEN "halted" ELSE "running"

JitFetches(n) ==
    n.t = "op" /\ n.op.result_operation \in
        {IgnoreAndFetch, FetchAndSend, FetchAndSetMethod, MoveAndSetMethodFetchAndSend}

JitMachine(o) ==
    [registers |-> o.registers, npc |-> jit.npc,
     NEXT_PARAMETER |-> jit.NEXT_PARAMETER, RESULT |-> jit.RESULT,
     METHOD_ADDRESS |-> jit.METHOD_ADDRESS,
     sent |-> <<>>, rd |-> <<>>, halt |-> FALSE, taken |-> FALSE]

\* a block with Compile_FetchParameter, in the environment number e: the
\* load finds state.parameters as JitMacro::Execute stored it
JitLoad(m, o, n, e) ==
    JitAfterBlock(m, n, e,
        JitBlock(JitMachine(o), n, o.labels,
                 LoadedValue(o, ParametersData(JitEnvironments[e], o.parameters,
                                               calls[m]),
                             LabelManagerOf(JitEnvironments[e], m),
                             JitEnvironments[e].padding, jit.NEXT_PARAMETER),
                 JitEnvironments[e].maxwell3d[2]))

\* one block of the routine.  A block that loads runs in the environment
\* the routines of this engine have read from already, else in any.
JitStepOf(m, o, n) ==
    IF JitFetches(n)
    THEN LET seen == {macro_cache[k].env : k \in DOMAIN macro_cache} \ {0}
         IN  \E e \in (IF seen # {} THEN seen ELSE DOMAIN JitEnvironments) :
                 JitLoad(m, o, n, e)
    ELSE JitAfterBlock(m, n, o.env, JitBlock(JitMachine(o), n, o.labels, Zero32, Zero32))

\* one native block of the routine program(&state) of JitMacro::Execute
JitStep ==
    /\ ~crashed /\ running # NoMethod /\ backend = "jit"
    /\ Len(executed) < MaxSteps
    /\ JitStepOf(running, macro_cache[running],
                 macro_cache[running].program[jit.npc])
    /\ UNCHANGED <<backend, uploaded_macro_code, is_delay_slot, exit_pending,
                   compile_count, calls, called, cache_hit, crashed, ref>>

(***************************************************************************)
(* Specifications.                                                         *)
(***************************************************************************)
InitEngine(b, code) ==
    /\ backend = b
    /\ uploaded_macro_code = code
    /\ macro_cache = <<>>
    /\ running = NoMethod
    /\ is_delay_slot = FALSE
    /\ exit_pending = FALSE
    /\ jit = JitPrologue
    /\ writes = <<>>
    /\ reads = <<>>
    /\ executed = <<>>
    /\ compile_count = [m \in Methods |-> 0]
    /\ calls = [m \in Methods |-> 0]
    /\ called = NoMethod
    /\ cache_hit = FALSE
    /\ outcome = "none"
    /\ crashed = FALSE
    /\ ref = <<>>

\* the engine as GetMacroEngine builds it, for either backend
Init == \E b \in {"interp", "jit"} : InitEngine(b, <<>>)

Next ==
    \/ \E m \in Methods, w \in UploadWords : AddCode(m, w)
    \/ \E m \in Methods, p \in ParamLists : Execute(m, p)
    \/ InterpStep
    \/ JitStep

Spec == Init /\ [][Next]_vars

(***************************************************************************)
(* Properties of MacroEngine (macro.cpp), checked under Spec.              *)
(***************************************************************************)
\* C2: Compile is invoked at most once per method number.  A step that
\* compiles method m is an Execute of m that found an upload buffer and no
\* cache entry, and it leaves the entry in macro_cache (unless the compiler
\* aborts); once m is cached no step compiles it or drops its entry; a step
\* that changes an upload buffer (AddCode) compiles nothing.
C2_CompileOncePerMethod ==
    [][\A m \in Methods :
          /\ compile_count'[m] <= 1
          /\ compile_count'[m] # compile_count[m] =>
                 /\ calls'[m] = calls[m] + 1 /\ called' = m
                 /\ m \notin DOMAIN macro_cache
                 /\ m \in DOMAIN uploaded_macro_code
                 /\ m \in DOMAIN macro_cache' \/ crashed'
          /\ m \in DOMAIN macro_cache =>
                 /\ m \in DOMAIN macro_cache'
                 /\ compile_count'[m] = compile_count[m]
          /\ uploaded_macro_code' # uploaded_macro_code =>
                 /\ compile_count' = compile_count
                 /\ macro_cache' = macro_cache]_vars

\* a second Execute of a method runs the macro its first Execute compiled
C2_Witness ==
    /\ running # NoMethod /\ outcome = "running" /\ executed = <<>>
    /\ called = running /\ cache_hit
    /\ calls[running] = 2
    /\ compile_count[running] = 1

\* C14: the cache is never invalidated by an upload.  A step that changes
\* an upload buffer leaves macro_cache as it is and compiles nothing; an
\* entry of macro_cache stays, with the native routine built at the first
\* invocation, and an Execute of a cached method compiles nothing and starts
\* that entry, whatever was uploaded since.
C14_CacheNotInvalidated ==
    [][/\ uploaded_macro_code' # uploaded_macro_code =>
              /\ macro_cache' = macro_cache
              /\ compile_count' = compile_count
       /\ \A m \in DOMAIN macro_cache :
              /\ m \in DOMAIN macro_cache'
              /\ backend = "jit" =>
                     /\ macro_cache'[m].program = macro_cache[m].program
                     /\ macro_cache'[m].labels = macro_cache[m].labels
              /\ calls'[m] # calls[m] =>
                     /\ cache_hit' /\ running' = m /\ ~crashed'
                     /\ compile_count' = compile_count]_vars

\* the JIT macro compiled from a shorter buffer is started again after a
\* word was uploaded for its method
C14_Witness ==
    /\ backend = "jit" /\ running # NoMethod /\ called = running /\ cache_hit
    /\ executed = <<>>
    /\ calls[running] = 2 /\ compile_count[running] = 1
    /\ Cardinality(DOMAIN macro_cache[running].labels) <
           Len(uploaded_macro_code[running])

\* what the cached macro of method m executes from: InterpretedMacro::code
\* is a reference to the vector uploaded_macro_code[m], the JIT macro holds
\* the routine its constructor emitted
FetchableCode(m) ==
    IF backend = "interp" THEN uploaded_macro_code[m]
    ELSE <<macro_cache[m].program, macro_cache[m].labels>>

\* C15: once a method's code has been handed to Compile the words the
\* cached macro executes never change: no step alters the words, or the
\* number of words, that a macro in macro_cache can fetch.
C15_CompiledCodeFixed ==
    [][\A m \in DOMAIN macro_cache :
           m \in DOMAIN macro_cache' => FetchableCode(m)' = FetchableCode(m)]_vars

\* the upload buffer of method m, empty when AddCode never named m
UploadBuffer(code, m) == IF m \in DOMAIN code THEN code[m] ELSE <<>>

\* C20: the upload buffers hold, per method, the words passed to AddCode in
\* call order.  Every step that changes uploaded_macro_code appends exactly
\* one word at the end of one method's buffer (creating it if absent),
\* leaves every other buffer as it was, reports no error and changes nothing
\* else; and between invocations AddCode is always possible.
C20_AddCodeAppends ==
    /\ [][uploaded_macro_code' # uploaded_macro_code =>
             \E m \in Methods, w \in UploadWords :
                 /\ DOMAIN uploaded_macro_code' = (DOMAIN uploaded_macro_code) \cup {m}
                 /\ uploaded_macro_code'[m] =
                        Append(UploadBuffer(uploaded_macro_code, m), w)
                 /\ \A k \in (DOMAIN uploaded_macro_code) \ {m} :
                        uploaded_macro_code'[k] = uploaded_macro_code[k]
                 /\ ~crashed' /\ outcome' = outcome
                 /\ macro_cache' = macro_cache /\ running' = running]_vars
    /\ [](Idle =>
             \A m \in Methods, w \in UploadWords :
                 Len(UploadBuffer(uploaded_macro_code, m)) < MaxCode =>
                     ENABLED AddCode(m, w))

\* two methods uploaded with the same words in different orders, the
\* first buffer grown by a third word after its method was run to its halt
C20_Witness ==
    /\ 1 \in DOMAIN uploaded_macro_code /\ 2 \in DOMAIN uploaded_macro_code
    /\ uploaded_macro_code[1] = <<ExitNop, SendR1, SendR1>>
    /\ uploaded_macro_code[2] = <<SendR1, ExitNop>>
    /\ 1 \in DOMAIN macro_cache /\ called = 1 /\ outcome = "halted" /\ Idle
    /\ (backend = "jit" => Cardinality(DOMAIN macro_cache[1].labels) = 2)

\* C21: cache entries are per method.  A step that is neither an Execute of
\* m nor a step of m's running macro leaves m's cache entry as it was (absent
\* or unchanged); an Execute that creates m's entry builds it from the words
\* uploaded under m; and the running macro of m executes words of m's buffer.
C21_CachePerMethod ==
    [][\A m \in Methods :
          /\ (calls'[m] = calls[m] /\ running # m) =>
                 /\ (m \in DOMAIN macro_cache') = (m \in DOMAIN macro_cache)
                 /\ m \in DOMAIN macro_cache => macro_cache'[m] = macro_cache[m]
          /\ (m \notin DOMAIN macro_cache /\ m \in DOMAIN macro_cache') =>
                 /\ calls'[m] = calls[m] + 1 /\ called' = m
                 /\ m \in DOMAIN uploaded_macro_code
                 /\ backend = "jit" =>
                        macro_cache'[m].program =
                            NewJitMacro(uploaded_macro_code[m]).program
          /\ (running = m /\ Len(executed') = Len(executed) + 1) =>
                 /\ m \in DOMAIN uploaded_macro_code
                 /\ executed'[Len(executed')].idx < Len(uploaded_macro_code[m])
                 /\ called = m]_vars

\* both methods are cached, from different code, and the Execute of method 2
\* has run to its halt after the Execute of method 1
C21_Witness ==
    /\ Idle /\ outcome = "halted" /\ called = 2
    /\ calls[1] = 1 /\ calls[2] = 1
    /\ 1 \in DOMAIN macro_cache /\ 2 \in DOMAIN macro_cache
    /\ uploaded_macro_code[1] # uploaded_macro_code[2]
    /\ writes # <<>>

\* C3: an Execute of a method that has neither an upload buffer nor a cache
\* entry reports the error and does nothing else: no compilation, no macro
\* started, no engine-register write, both maps unchanged.
C3_ExecuteUnknownMethod ==
    [][(/\ calls' # calls
        /\ called' \notin DOMAIN macro_cache
        /\ called' \notin DOMAIN uploaded_macro_code)
       => /\ outcome' = "not_uploaded"
          /\ ~crashed'
          /\ running' = NoMethod
          /\ compile_count' = compile_count
          /\ macro_cache' = macro_cache
          /\ uploaded_macro_code' = uploaded_macro_code
          /\ writes' = writes /\ reads' = reads /\ executed' = executed]_vars

\* an Execute of a never uploaded method has returned, after an upload and
\* an invocation of the other method
C3_Witness ==
    /\ outcome = "not_uploaded" /\ CallsMade(Methods) = 2
    /\ called \notin DOMAIN macro_cache
    /\ called \notin DOMAIN uploaded_macro_code
    /\ macro_cache # <<>>

\* the interpreter engine after one upload sequence for method 1
InitInterp == \E code \in InterpPrograms : InitEngine("interp", Put(<<>>, 1, code))

NextInterp ==
    \/ \E m \in Methods, p \in InterpParamLists : Execute(m, p)
    \/ InterpStep

SpecInterp == InitInterp /\ [][NextInterp]_vars

(***************************************************************************)
(* Properties of InterpretedMacro (macro_interpreter.cpp), checked under   *)
(* SpecInterp.                                                             *)
(***************************************************************************)
\* a Step call of the running interpreter macro executed an instruction and
\* no ASSERT failed in it
InterpStepped ==
    /\ backend = "interp" /\ running # NoMethod
    /\ Len(executed') = Len(executed) + 1
    /\ ~crashed'

\* the instruction that Step call executed
SteppedOpcode ==
    Decode(uploaded_macro_code[running][executed'[Len(executed')].idx + 1])

\* the method whose instructions executed holds
ExecutedMethod == IF running # NoMethod THEN running ELSE called

\* the k-th executed instruction
ExecutedOpcode(k) ==
    Decode(uploaded_macro_code[ExecutedMethod][executed[k].idx + 1])

\* C4: in the interpreter register 0 always reads as 0 and a write to it
\* changes no register: registers[0] stays 0, an instruction whose dst is 0
\* (under any of the eight result operations) leaves the register file as
\* it was, and an AddImmediate on src_a = 0 yields its immediate.
C4_InterpRegisterZero ==
    /\ [](backend = "interp" =>
             \A m \in DOMAIN macro_cache :
                 /\ macro_cache[m].registers[0] = Zero32
                 /\ GetRegister(Frame(macro_cache[m]), 0) = Zero32)
    /\ [][InterpStepped =>
             /\ (SteppedOpcode.operation # OpBranch /\ SteppedOpcode.dst = 0) =>
                    macro_cache'[running].registers = macro_cache[running].registers
             /\ (/\ SteppedOpcode.operation = OpAddImmediate
                 /\ SteppedOpcode.result_operation = MoveAndSend
                 /\ SteppedOpcode.src_a = 0 /\ SteppedOpcode.dst # 0) =>
                    macro_cache'[running].registers[SteppedOpcode.dst] =
                        FromInt(SteppedOpcode.immediate)]_vars

\* a fetch and a move of the non-zero r1 + 3 with dst = 0 have executed, and
\* the instruction after them has read register 0 as 0
C4_Witness ==
    /\ backend = "interp" /\ running # NoMethod /\ Len(executed) = 3
    /\ ExecutedOpcode(1).dst = 0
    /\ ExecutedOpcode(1).result_operation = FetchAndSend
    /\ ExecutedOpcode(2).dst = 0
    /\ ExecutedOpcode(2).result_operation = MoveAndSetMethod
    /\ macro_cache[running].method_address # Zero32
    /\ ExecutedOpcode(3).src_a = 0 /\ ExecutedOpcode(3).dst = 2
    /\ macro_cache[running].registers[2] = <<0, 1>>
    /\ macro_cache[running].registers[0] = Zero32

\* the interpreter macro is at the entry of its step loop
InterpAtEntry ==
    /\ backend = "interp" /\ running # NoMethod /\ ~crashed
    /\ executed = <<>>

\* C6: every InterpretedMacro::Execute starts its step loop with registers
\* 0 and 2..7 zero, register 1 = parameters[0], pc 0, no delayed pc, method
\* address 0 and the parameter cursor at 1, whatever an earlier call left.
C6_InterpEntryState ==
    InterpAtEntry =>
        LET o == macro_cache[running]
        IN  /\ \A i \in (0..(NumMacroRegisters - 1)) \ {1} : o.registers[i] = Zero32
            /\ o.registers[1] = o.parameters[1]
            /\ o.pc = 0
            /\ o.delayed_pc = <<>>
            /\ o.method_address = Zero32
            /\ o.next_parameter_index = 1

\* the second Execute of a method is at its entry, on the cached macro
C6_Witness ==
    /\ InterpAtEntry /\ cache_hit /\ called = running
    /\ calls[running] = 2 /\ compile_count[running] = 1

\* C8: an interpreter instruction whose result operation sends makes exactly
\* one engine-register write, of the value it passes to Send, at bits 0..11 of the method address in force
\* when Send is called (the result just stored for the MoveAndSetMethod...
\* operations, the method address before the step otherwise); afterwards
\* bits 0..11 hold (address + increment) mod 4096 and bits 12..31 are as
\* they were.  Any other instruction writes nothing.
C8_InterpSend ==
    [][InterpStepped =>
          LET op == SteppedOpcode
              ma == IF op.result_operation \in
                        {MoveAndSetMethodFetchAndSend, MoveAndSetMethodSend}
                    THEN StepResult(Frame(macro_cache[running]), op)
                    ELSE macro_cache[running].method_address
              address == Lo(ma) % 4096
              increment == (Lo(ma) \div 4096) + 16 * (Hi(ma) % 4)
              o == macro_cache[running]
              v == CASE op.result_operation = MoveAndSetMethodFetchAndSend ->
                          o.parameters[o.next_parameter_index + 1]
                     [] op.result_operation = MoveAndSetMethodSend -> <<0, increment>>
                     [] OTHER -> StepResult(Frame(o), op)
          IN  IF /\ op.operation # OpBranch
                 /\ op.result_operation \in
                        {FetchAndSend, MoveAndSend, MoveAndSetMethodFetchAndSend,
                         MoveAndSetMethodSend}
              THEN /\ Len(writes') = Len(writes) + 1
                   /\ SubSeq(writes', 1, Len(writes)) = writes
                   /\ writes'[Len(writes')] = <<address, v>>
                   /\ macro_cache'[running].method_address =
                          <<Hi(ma), (Lo(ma) \div 4096) * 4096 +
                                    ((address + increment) % 4096)>>
              ELSE writes' = writes]_vars

\* a Send at address 0xFFF with increment 0x3F has wrapped to 0x03E and left
\* the upper bits set
C8_Witness ==
    /\ backend = "interp" /\ running # NoMethod /\ writes # <<>>
    /\ writes[Len(writes)][1] = 4095
    /\ macro_cache[running].method_address = <<65535, 61440 + 62>>

\* C10: an interpreter branch whose condition holds.  Without the annul bit
\* the next executed instruction is the one following the branch, run as a
\* delay slot, and the one after it is at branch index + immediate; with
\* the annul bit the next executed instruction is at branch index +
\* immediate.  (Stated over the instructions the invocation executed: an
\* invocation aborted by a failed ASSERT executes nothing further.)
C10_InterpTakenBranch ==
    (backend = "interp" /\ ExecutedMethod \in DOMAIN macro_cache) =>
        \A k \in 1..Len(executed) :
            LET e == executed[k]
                op == ExecutedOpcode(k)
                n == Len(executed)
            IN  op.operation = OpBranch =>
                    /\ ~e.delay
                    /\ (op.branch_condition = CondZero /\ op.src_a = 0) => e.taken
                    /\ (e.taken /\ op.branch_annul = 0 /\ k + 1 <= n) =>
                           /\ executed[k + 1].idx = e.idx + 1
                           /\ executed[k + 1].delay
                           /\ ~executed[k + 1].taken
                    /\ (e.taken /\ op.branch_annul = 0 /\ k + 2 <= n) =>
                           executed[k + 2].idx = e.idx + op.immediate
                    /\ (e.taken /\ op.branch_annul = 1 /\ k + 1 <= n) =>
                           /\ executed[k + 1].idx = e.idx + op.immediate
                           /\ ~executed[k + 1].delay

\* a taken branch without annul, its delay slot (r2 incremented once) and
\* its target have executed
C10_Witness ==
    /\ backend = "interp" /\ running # NoMethod /\ Len(executed) = 3
    /\ ExecutedOpcode(1).operation = OpBranch
    /\ ExecutedOpcode(1).branch_annul = 0
    /\ executed[1].taken
    /\ executed[2] = Executed(1, TRUE, FALSE)
    /\ uploaded_macro_code[running][2] = Inc2
    /\ executed[3].idx = 2
    /\ macro_cache[running].registers[2] = <<0, 1>>

\* the value of register index as an instruction reads it
RegisterRead(registers, index) == IF index = 0 THEN Zero32 ELSE registers[index]

\* C22: a Branch is taken exactly when its branch_condition holds of
\* reg[src_b]: Zero when the value is 0, NotZero when it is not.
C22_InterpBranchCondition ==
    [][(InterpStepped /\ SteppedOpcode.operation = OpBranch) =>
          (executed'[Len(executed')].taken =
              IF SteppedOpcode.branch_condition = CondZero
              THEN RegisterRead(macro_cache[running].registers,
                                SteppedOpcode.src_b) = Zero32
              ELSE RegisterRead(macro_cache[running].registers,
                                SteppedOpcode.src_b) # Zero32)]_vars

\* the interpreter macro of method m is between the Step call of a taken
\* Branch without annul and the Step(true) that call makes
AwaitingBranchDelaySlot(m) ==
    /\ m = running /\ is_delay_slot /\ executed # <<>>
    /\ executed[Len(executed)].taken
    /\ ExecutedOpcode(Len(executed)).operation = OpBranch
    /\ ExecutedOpcode(Len(executed)).branch_annul = 0

\* C34: in the interpreter delayed_pc is populated only between a taken
\* Branch without annul and its delay-slot step, where it holds the branch
\* address plus the branch target: it is empty before every step made with
\* is_delay_slot = false, ASSERT(is_delay_slot) never fails, and it is
\* empty in every macro whose Execute has returned.
C34_PendingBranchSlot ==
    /\ outcome # "assert_is_delay_slot"
    /\ (backend = "interp" /\ ~crashed) =>
           \A m \in DOMAIN macro_cache :
               /\ macro_cache[m].delayed_pc # <<>> =>
                      /\ AwaitingBranchDelaySlot(m)
                      /\ macro_cache[m].delayed_pc =
                             <<4 * executed[Len(executed)].idx +
                               GetBranchTarget(ExecutedOpcode(Len(executed)))>>
               /\ (m = running /\ ~is_delay_slot) => macro_cache[m].delayed_pc = <<>>
               /\ m # running => macro_cache[m].delayed_pc = <<>>

\* the delay-slot step of a taken Branch without annul has consumed the
\* pending target: pc is at branch index + immediate and the slot is empty
C34_Witness ==
    /\ backend = "interp" /\ running # NoMethod /\ ~crashed
    /\ Len(executed) = 2
    /\ executed[1].taken
    /\ ExecutedOpcode(1).operation = OpBranch
    /\ ExecutedOpcode(1).branch_annul = 0
    /\ executed[2].delay
    /\ macro_cache[running].delayed_pc = <<>>
    /\ macro_cache[running].pc =
           4 * (executed[1].idx + ExecutedOpcode(1).immediate)

\* the step loop of InterpretedMacro::Execute has ended: Execute returned,
\* or failed its closing ASSERT on the parameter cursor
InterpLoopEnded ==
    backend = "interp" /\ outcome \in {"halted", "assert_parameters"}

\* C35: the step loop of InterpretedMacro::Execute ends only after an
\* instruction with is_exit = 1 (not a taken Branch, whose exit bit is never
\* looked at) has executed and the step after it was made as a delay-slot
\* step.  A failed ASSERT or an unimplemented operation aborts the
\* invocation; it does not return.
C35_ReturnsAfterExit ==
    /\ InterpLoopEnded =>
           /\ Len(executed) >= 2
           /\ ExecutedOpcode(Len(executed) - 1).is_exit = 1
           /\ ~executed[Len(executed) - 1].taken
           /\ executed[Len(executed)].delay
    /\ (backend = "interp" /\
        outcome \in {"assert_pc", "unimplemented", "assert_fetch",
                     "assert_is_delay_slot", "assert_branch_in_delay_slot"}) =>
           (crashed /\ running # NoMethod)

\* an Execute has returned after a taken branch without annul, an exit in
\* its delay slot and the exit's own delay-slot step at the branch target
C35_Witness ==
    /\ backend = "interp" /\ Idle /\ outcome = "halted"
    /\ Len(executed) = 3
    /\ ExecutedOpcode(1).operation = OpBranch /\ executed[1].taken
    /\ ExecutedOpcode(1).branch_annul = 0 /\ ExecutedOpcode(1).is_exit = 0
    /\ ExecutedOpcode(2).is_exit = 1 /\ executed[2].delay
    /\ executed[3].delay /\ executed[3].idx = 2

\* the running interpreter macro is about to step, as a delay slot, a word
\* that is a Branch
BranchInDelaySlot ==
    /\ backend = "interp" /\ running # NoMethod /\ ~crashed
    /\ is_delay_slot
    /\ GetOpcodeOk(macro_cache[running], uploaded_macro_code[running])
    /\ GetOpcode(macro_cache[running], uploaded_macro_code[running]).operation
           = OpBranch

\* C26: a Branch stepped as a delay-slot step is fatal.  The step ends the
\* invocation with the error of the ASSERT, the branch is not counted as
\* executed, pc is where the fetch of the word left it (the pending target,
\* or the next word), the pending-branch slot is empty, and no register or
\* engine register is written.
C26_BranchInDelaySlotFatal ==
    [][(BranchInDelaySlot /\ vars' # vars) =>
          /\ crashed' /\ outcome' = "assert_branch_in_delay_slot"
          /\ running' = running
          /\ executed' = executed
          /\ macro_cache'[running].pc =
                 IF macro_cache[running].delayed_pc # <<>>
                 THEN macro_cache[running].delayed_pc[1]
                 ELSE macro_cache[running].pc + 4
          /\ macro_cache'[running].delayed_pc = <<>>
          /\ macro_cache'[running].registers = macro_cache[running].registers
          /\ writes' = writes]_vars

\* a Branch in the delay slot of a taken branch without annul has ended the
\* invocation with the error
C26_Witness ==
    /\ backend = "interp" /\ crashed /\ outcome = "assert_branch_in_delay_slot"
    /\ Len(executed) = 1
    /\ ExecutedOpcode(1).operation = OpBranch /\ ExecutedOpcode(1).branch_annul = 0
    /\ executed[1].taken
    /\ Decode(uploaded_macro_code[running][2]).operation = OpBranch
    /\ macro_cache[running].delayed_pc = <<>>

\* the result operations that call FetchParameter
FetchingOperations ==
    {IgnoreAndFetch, FetchAndSend, FetchAndSetMethod, MoveAndSetMethodFetchAndSend}

\* the fetching non-branch instructions among those executed so far
FetchesExecuted ==
    {k \in 1..Len(executed) :
        /\ ExecutedOpcode(k).operation # OpBranch
        /\ ExecutedOpcode(k).result_operation \in FetchingOperations}

\* C30: an executed non-branch interpreter instruction advances the
\* parameter cursor by one if its result operation fetches (also with dst =
\* 0, where the value fetched into the register is dropped) and leaves it
\* unchanged otherwise; the fetch yields the parameter at the cursor, so
\* with the cursor starting at 1 the k-th fetch yields parameters[k].
C30_InterpFetch ==
    /\ [][(InterpStepped /\ SteppedOpcode.operation # OpBranch) =>
             /\ macro_cache'[running].next_parameter_index =
                    macro_cache[running].next_parameter_index +
                        (IF SteppedOpcode.result_operation \in FetchingOperations
                         THEN 1 ELSE 0)
             /\ SteppedOpcode.result_operation \in FetchingOperations =>
                    macro_cache[running].next_parameter_index <
                        Len(macro_cache[running].parameters)
             /\ SteppedOpcode.result_operation \in
                        {IgnoreAndFetch, FetchAndSend, FetchAndSetMethod} =>
                    macro_cache'[running].registers =
                        IF SteppedOpcode.dst = 0
                        THEN macro_cache[running].registers
                        ELSE [macro_cache[running].registers
                                  EXCEPT ![SteppedOpcode.dst] =
                                      macro_cache[running].parameters[
                                          macro_cache[running].next_parameter_index + 1]]
             /\ SteppedOpcode.result_operation = MoveAndSetMethodFetchAndSend =>
                    /\ Len(writes') = Len(writes) + 1
                    /\ writes'[Len(writes')][2] =
                           macro_cache[running].parameters[
                               macro_cache[running].next_parameter_index + 1]]_vars
    /\ []((backend = "interp" /\ running # NoMethod /\ ~crashed) =>
              macro_cache[running].next_parameter_index =
                  1 + Cardinality(FetchesExecuted))

\* two fetches have stored parameters[1] and parameters[2] of a three-element
\* list in registers 3 and 4 and the invocation has halted with the cursor at 3
C30_Witness ==
    /\ backend = "interp" /\ Idle /\ outcome = "halted" /\ called = 1
    /\ uploaded_macro_code[1] \in FetchPrograms
    /\ Cardinality(FetchesExecuted) = 2
    /\ macro_cache[1].parameters = <<PWrap, PAllOnes, P5>>
    /\ macro_cache[1].registers[3] = PAllOnes
    /\ macro_cache[1].registers[4] = P5
    /\ macro_cache[1].next_parameter_index = 3

\* C11: after an instruction with is_exit = 1 has executed, exactly one
\* further instruction executes and the invocation halts: nothing executes
\* after that delay-slot instruction, whatever flags it carries.
C11_ExitDelaySlot ==
    (backend = "interp" /\ ExecutedMethod \in DOMAIN macro_cache) =>
        \A k \in 1..Len(executed) :
            ExecutedOpcode(k).is_exit = 1 =>
                /\ Len(executed) <= k + 1
                /\ (Idle /\ outcome = "halted") => Len(executed) = k + 1

\* the JIT engine after one upload sequence for method 1
InitJit == \E code \in JitPrograms : InitEngine("jit", Put(<<>>, 1, code))

NextJit ==
    \/ \E m \in Methods, p \in ParamLists : Execute(m, p)
    \/ JitStep

SpecJit == InitJit /\ [][NextJit]_vars

(***************************************************************************)
(* Properties of JitMacro (macro_jit_x64.cpp), checked under SpecJit.      *)
(***************************************************************************)
\* C5: in JIT-compiled code register 0 reads as 0 in every reachable state:
\* the load Compile_GetRegister emits for index 0 yields 0, whatever the
\* instructions executed before have stored.
C5_JitRegisterZero ==
    backend = "jit" =>
        \A m \in DOMAIN macro_cache : Compile_GetRegister(macro_cache[m], 0) = Zero32

\* the routine of a JIT macro is at its first instruction
JitAtEntry ==
    /\ backend = "jit" /\ running # NoMethod /\ ~crashed
    /\ executed = <<>> /\ jit.npc = 1

\* C7: every JitMacro::Execute starts its routine from the interpreter's
\* initial invocation state: all registers 0 except register 1, which holds
\* parameters[0], the parameter cursor at 1 and the method address 0.
C7_JitEntryState ==
    JitAtEntry =>
        LET o == macro_cache[running]
        IN  /\ \A i \in (0..(MAX_REGISTERS - 1)) \ {1} : o.registers[i] = Zero32
            /\ o.registers[1] = o.parameters[1]
            /\ jit.NEXT_PARAMETER = 1
            /\ jit.METHOD_ADDRESS = Zero32

\* C9: for the method address the routine holds, the Send Compile_Send
\* emits writes to the engine address InterpretedMacro::Send writes to and
\* leaves the method address InterpretedMacro::Send leaves.
C9_JitSendAgrees ==
    (backend = "jit" /\ running # NoMethod) =>
        LET i == Send([method_address |-> jit.METHOD_ADDRESS, sent |-> <<>>], <<0, 1>>)
            j == Compile_Send([METHOD_ADDRESS |-> jit.METHOD_ADDRESS, sent |-> <<>>],
                              <<0, 1>>)
        IN  /\ j.sent = i.sent
            /\ j.METHOD_ADDRESS = i.method_address

\* the last Execute was of the single-instruction program, it has executed
\* its first instruction and InterpretedMacro::Execute is over
AddImmediateOver ==
    /\ backend = "interp" /\ called = 1 /\ 1 \in DOMAIN macro_cache
    /\ uploaded_macro_code[1] \in AddImmediatePrograms
    /\ executed # <<>>
    /\ (crashed \/ running = NoMethod)

\* C13 (as stated): Execute of the program AddImmediate(src_a = 0, immediate
\* = 5, Move, dst = 1, is_exit = 1), alone or followed by a no-op word, with
\* any parameter list, halts and leaves register 1 = 5.
C13_AddImmediateHalts ==
    AddImmediateOver =>
        /\ outcome = "halted"
        /\ macro_cache[1].registers[1] = <<0, 5>>

\* C13 (amended): once its first instruction has executed register 1 is 5
\* and stays 5; the Execute halts normally exactly when the exit instruction
\* is followed by the no-op word and the parameter list has one element.
\* Alone in the buffer the delay-slot fetch fails the ASSERT of GetOpcode,
\* and with more parameters the ASSERT on the parameter cursor fails.
C13_AddImmediateExit ==
    (/\ backend = "interp" /\ called = 1 /\ 1 \in DOMAIN macro_cache
     /\ uploaded_macro_code[1] \in AddImmediatePrograms
     /\ executed # <<>>) =>
        /\ macro_cache[1].registers[1] = <<0, 5>>
        /\ AddImmediateOver =>
               outcome = IF uploaded_macro_code[1] = <<AddImm5Exit>>
                         THEN "assert_pc"
                         ELSE IF Len(macro_cache[1].parameters) = 1
                              THEN "halted" ELSE "assert_parameters"

\* with the no-op word and the one parameter 0x1FFC the Execute has halted
\* and register 1, which held the parameter at entry, holds 5
C13_Witness ==
    /\ AddImmediateOver /\ Idle /\ outcome = "halted"
    /\ uploaded_macro_code[1] = <<AddImm5Exit, Nop>>
    /\ macro_cache[1].parameters = <<PWrap>>
    /\ Len(executed) = 2
    /\ macro_cache[1].registers[1] = <<0, 5>>

\* C16: compiling a word of the Unused operation is an unimplemented-
\* operation error that aborts the Execute: when the first word of the
\* method's code is Unused, no instruction of the invocation executes and no
\* engine register is written.
C16_JitUnusedAborts ==
    (/\ backend = "jit" /\ called \in DOMAIN uploaded_macro_code
     /\ Decode(uploaded_macro_code[called][1]).operation = OpUnused) =>
        /\ executed = <<>>
        /\ writes = <<>>

\* C17: an ALU instruction whose alu_operation is AddWithCarry or
\* SubtractWithBorrow is rejected when the JIT compiles it: it is never
\* among the executed instructions, so it never yields a value that is
\* stored, used as method address or sent.
C17_JitCarryRejected ==
    backend = "jit" =>
        \A k \in 1..Len(executed) :
            ~(/\ ExecutedOpcode(k).operation = OpALU
              /\ ExecutedOpcode(k).alu_operation \in
                     {AluAddWithCarry, AluSubtractWithBorrow})

\* the word is the operation the JIT has no emission routine for: Unused,
\* or an ALU operation outside the seven cases of the switch of Compile_ALU
JitUnimplemented(opcode) ==
    \/ opcode.operation = OpUnused
    \/ /\ opcode.operation = OpALU
       /\ opcode.alu_operation \notin AluOperations

\* C18: a failed JIT compilation populates no cache entry: macro_cache holds
\* no macro for a method whose first code word, which every compilation
\* decodes, is Unused or an unimplemented ALU operation, and no macro of
\* such a method is started.
C18_JitFailedCompileNotCached ==
    backend = "jit" =>
        \A m \in DOMAIN uploaded_macro_code :
            JitUnimplemented(Decode(uploaded_macro_code[m][1])) =>
                m \notin DOMAIN macro_cache /\ running # m

\* C29: a parameter fetch with the cursor at or past parameters.size() is
\* fatal: in no state of the JIT routine has the parameter cursor passed
\* the size of the parameter list.
C29_JitFetchInBounds ==
    (backend = "jit" /\ running # NoMethod) =>
        jit.NEXT_PARAMETER <= Len(macro_cache[running].parameters)

\* C12: an Execute that reaches its normal halt has consumed exactly its
\* parameter list; a halt with the cursor elsewhere is reported as an error.
\* For the JIT routine the cursor is NEXT_PARAMETER, counted from 0 (as the
\* prologue sets it) or from 1 (as the interpreter counts).
C12_JitParametersConsumed ==
    (backend = "jit" /\ Idle /\ outcome = "halted") =>
        \/ jit.NEXT_PARAMETER = Len(macro_cache[called].parameters)
        \/ jit.NEXT_PARAMETER + 1 = Len(macro_cache[called].parameters)

\* GetMacroEngine with ARCHITECTURE_x86_64: a new MacroJitX64 that is given
\* the code the interpreter engine was given; what the interpreter's
\* invocation produced is kept in ref
Rebuild ==
    /\ Idle /\ backend = "interp" /\ outcome = "halted" /\ ref = <<>>
    /\ ref' = [writes |-> writes, reads |-> reads,
               registers |-> macro_cache[called].registers,
               parameters |-> macro_cache[called].parameters,
               executed |-> executed]
    /\ backend' = "jit"
    /\ macro_cache' = <<>>
    /\ compile_count' = [m \in Methods |-> 0]
    /\ calls' = [m \in Methods |-> 0]
    /\ outcome' = "none"
    /\ writes' = <<>>
    /\ reads' = <<>>
    /\ executed' = <<>>
    /\ UNCHANGED <<uploaded_macro_code, running, is_delay_slot, exit_pending, jit,
                   called, cache_hit, crashed>>

\* one program and one parameter list, run by the interpreter and then by
\* the JIT, each on a freshly compiled macro
InitEquiv == \E code \in EquivPrograms : InitEngine("interp", Put(<<>>, 1, code))

NextEquiv ==
    \/ \E p \in ParamLists :
          /\ calls[1] = 0
          /\ ref # <<>> => p = ref.parameters
          /\ Execute(1, p)
    \/ InterpStep
    \/ JitStep
    \/ Rebuild

SpecEquiv == InitEquiv /\ [][NextEquiv]_vars

(***************************************************************************)
(* The two backends on the same program and parameters, under SpecEquiv.   *)
(***************************************************************************)
\* C1: a program and a parameter list that the interpreter runs to its exit
\* give, in the JIT-compiled routine, the same sequence of engine-register
\* writes, the same sequence of engine-register reads and the same final
\* registers 0..7.
C1_BackendsAgree ==
    (backend = "jit" /\ ref # <<>> /\ Idle /\ outcome = "halted") =>
        /\ writes = ref.writes
        /\ reads = ref.reads
        /\ \A i \in 0..(NumMacroRegisters - 1) :
               macro_cache[called].registers[i] = ref.registers[i]

(***************************************************************************)
(* ExtractInsert in the two backends, under SpecBitfield: a program that   *)
(* loads two registers and merges a field of one into the other is run by  *)
(* the interpreter and then, compiled, by the JIT.                         *)
(***************************************************************************)
InitBitfield == \E code \in BitfieldPrograms : InitEngine("interp", Put(<<>>, 1, code))

SpecBitfield == InitBitfield /\ [][NextEquiv]_vars

\* bit i of the merge of the bf_size-bit field of b at bf_src_bit into a at
\* bf_dst_bit: inside the destination field the bit of b (0 above bit 31),
\* outside it the bit of a
ExtractInsertBit(opcode, a, b, i) ==
    IF i >= opcode.bf_dst_bit /\ i < opcode.bf_dst_bit + opcode.bf_size
    THEN IF i - opcode.bf_dst_bit + opcode.bf_src_bit <= 31
         THEN Bits(b, i - opcode.bf_dst_bit + opcode.bf_src_bit, 1)
         ELSE 0
    ELSE Bits(a, i, 1)

\* a step of either backend executed an ExtractInsert instruction
ExtractInsertStepped ==
    /\ running # NoMethod
    /\ Len(executed') = Len(executed) + 1
    /\ SteppedOpcode.operation = OpExtractInsert

\* C19: ExtractInsert yields (reg[src_a] AND NOT (mask << bf_dst_bit)) OR
\* (((reg[src_b] >> bf_src_bit) AND mask) << bf_dst_bit) with mask =
\* (1 << bf_size) - 1, in the interpreter and in the JIT routine: bit by
\* bit, the result stored in dst has the field of reg[src_b] inside the
\* destination field and the bits of reg[src_a] outside it, and the JIT
\* leaves in the two operand registers and in dst what the interpreter left.
C19_ExtractInsert ==
    /\ [][ExtractInsertStepped =>
             /\ ~crashed'
             /\ \A i \in 0..31 :
                    Bits(macro_cache'[running].registers[SteppedOpcode.dst], i, 1) =
                        ExtractInsertBit(SteppedOpcode,
                                         macro_cache[running].registers[SteppedOpcode.src_a],
                                         macro_cache[running].registers[SteppedOpcode.src_b],
                                         i)]_vars
    /\ []((backend = "jit" /\ ref # <<>> /\ Idle /\ outcome = "halted") =>
              \A r \in {ExecutedOpcode(3).src_a, ExecutedOpcode(3).src_b,
                         ExecutedOpcode(3).dst} :
                  macro_cache[called].registers[r] = ref.registers[r])

\* the JIT routine has merged bits 4..11 of 0x1234 into 0xFFFFFF00 at bit 0,
\* as the interpreter did before it: 0xFFFFFF23
C19_Witness ==
    /\ backend = "jit" /\ ref # <<>> /\ Idle /\ outcome = "halted"
    /\ Len(executed) = 4
    /\ ExecutedOpcode(3).operation = OpExtractInsert
    /\ ExecutedOpcode(3).bf_src_bit = 4 /\ ExecutedOpcode(3).bf_size = 8
    /\ ExecutedOpcode(3).bf_dst_bit = 0
    /\ macro_cache[called].registers[2] = <<65535, 65280>>
    /\ macro_cache[called].registers[3] = <<0, 4660>>
    /\ macro_cache[called].registers[4] = <<65535, 65315>>
    /\ ref.registers[4] = <<65535, 65315>>

(***************************************************************************)
(* Branches in the two backends, under SpecBranch: a program that starts   *)
(* with a Branch is run by the interpreter and then, compiled, by the JIT. *)
(***************************************************************************)
InitBranch == \E code \in BranchPrograms : InitEngine("interp", Put(<<>>, 1, code))

SpecBranch == InitBranch /\ [][NextEquiv]_vars

\* C23: when a Branch (without the exit bit) is not taken, the instruction
\* executed next is the word that follows the branch, whatever branch_annul
\* is, in the interpreter and in the JIT routine.
C23_NotTakenFallsThrough ==
    ExecutedMethod \in DOMAIN uploaded_macro_code =>
        \A k \in 1..(Len(executed) - 1) :
            (/\ ExecutedOpcode(k).operation = OpBranch
             /\ ExecutedOpcode(k).is_exit = 0
             /\ ~executed[k].taken) =>
                /\ executed[k + 1].idx = executed[k].idx + 1
                /\ ~executed[k + 1].delay

\* C24: in the JIT routine a taken Branch at word index i with immediate k
\* continues at word index i + k, as in the interpreter: directly with
\* branch_annul, after the delay-slot instruction without it.
C24_JitBranchTarget ==
    (backend = "jit" /\ ExecutedMethod \in DOMAIN uploaded_macro_code) =>
        \A k \in 1..Len(executed) :
            (ExecutedOpcode(k).operation = OpBranch /\ executed[k].taken) =>
                /\ (ExecutedOpcode(k).branch_annul = 1 /\ k + 1 <= Len(executed)) =>
                       executed[k + 1].idx =
                           executed[k].idx + ExecutedOpcode(k).immediate
                /\ (/\ ExecutedOpcode(k).branch_annul = 0
                    /\ k + 2 <= Len(executed)
                    /\ ExecutedOpcode(k + 1).is_exit = 0) =>
                       executed[k + 2].idx =
                           executed[k].idx + ExecutedOpcode(k).immediate

\* C25: the JIT binds a label for every instruction the interpreter can
\* reach: each word the interpreter executed in its run of the code is a
\* word whose instruction label JitMacro::Compile binds for the same code.
C25_JitLabelsBound ==
    (backend = "jit" /\ ref # <<>>) =>
        \A k \in 1..Len(ref.executed) :
            NewJitMacro(uploaded_macro_code[1]).labels[ref.executed[k].idx] # 0

\* C27: when an instruction with is_exit = 1 executes in the delay slot of
\* a taken branch without annul, the instruction at the branch target is
\* the next one executed and the last one: the invocation halts after it.
C27_ExitInBranchDelaySlot ==
    (backend = "interp" /\ ExecutedMethod \in DOMAIN uploaded_macro_code) =>
        \A k \in 1..(Len(executed) - 1) :
            (/\ ExecutedOpcode(k).operation = OpBranch
             /\ ExecutedOpcode(k).branch_annul = 0
             /\ executed[k].taken
             /\ ExecutedOpcode(k + 1).is_exit = 1) =>
                /\ Len(executed) <= k + 2
                /\ k + 2 <= Len(executed) =>
                       executed[k + 2].idx =
                           executed[k].idx + ExecutedOpcode(k).immediate
                /\ (Idle /\ outcome = "halted") => Len(executed) = k + 2

\* C28: an executed Branch with is_exit = 1 leads to the halt like any other
\* exit instruction, taken or not.  With a following instruction that has
\* no exit bit of its own, at most one further instruction executes (two
\* for a taken branch without annul: its delay slot and its target).
C28_ExitBranchHalts ==
    (backend = "interp" /\ ExecutedMethod \in DOMAIN uploaded_macro_code) =>
        \A k \in 1..Len(executed) :
            (/\ ExecutedOpcode(k).operation = OpBranch
             /\ ExecutedOpcode(k).is_exit = 1
             /\ k + 1 <= Len(executed) => ExecutedOpcode(k + 1).is_exit = 0) =>
                Len(executed) <=
                    k + (IF executed[k].taken /\ ExecutedOpcode(k).branch_annul = 0
                         THEN 2 ELSE 1)

(***************************************************************************)
(* A result moved, used as method address and sent in one instruction, in  *)
(* the two backends, under SpecSetSend.                                    *)
(***************************************************************************)
InitSetSend == \E code \in SetSendPrograms : InitEngine("interp", Put(<<>>, 1, code))

SpecSetSend == InitSetSend /\ [][NextEquiv]_vars

\* a step of either backend executed, without a failed ASSERT, an
\* instruction whose result operation sets the method address and sends
SetSendStepped ==
    /\ running # NoMethod
    /\ Len(executed') = Len(executed) + 1
    /\ ~crashed'
    /\ SteppedOpcode.operation # OpBranch
    /\ SteppedOpcode.result_operation \in
           {MoveAndSetMethodFetchAndSend, MoveAndSetMethodSend}

\* the result that instruction computes
SetSendResult ==
    IF backend = "interp"
    THEN StepResult(Frame(macro_cache[running]), SteppedOpcode)
    ELSE JitResult(macro_cache[running], SteppedOpcode)

\* InterpretedMacro::FetchParameter on the running macro
SetSendParameter ==
    macro_cache[running].parameters[macro_cache[running].next_parameter_index + 1]

\* C31: an instruction under MoveAndSetMethodFetchAndSend or
\* MoveAndSetMethodSend, in the interpreter and in the JIT routine, makes
\* exactly one engine-register write, at bits 0..11 of its result (the new
\* method address), of the parameter at the cursor for
\* MoveAndSetMethodFetchAndSend (in the JIT routine the parameter whose
\* index is the count NEXT_PARAMETER) and of bits 12..17 of the result for
\* MoveAndSetMethodSend, and stores the result in reg[dst].
C31_SetMethodThenSend ==
    [][SetSendStepped =>
          /\ Len(writes') = Len(writes) + 1
          /\ SubSeq(writes', 1, Len(writes)) = writes
          /\ writes'[Len(writes')][1] = Lo(SetSendResult) % 4096
          /\ writes'[Len(writes')][2] =
                 IF SteppedOpcode.result_operation = MoveAndSetMethodFetchAndSend
                 THEN IF backend = "interp" THEN SetSendParameter
                      ELSE macro_cache[running].parameters[jit.NEXT_PARAMETER + 1]
                 ELSE <<0, (Lo(SetSendResult) \div 4096) + 16 * (Hi(SetSendResult) % 4)>>
          /\ SteppedOpcode.dst # 0 =>
                 macro_cache'[running].registers[SteppedOpcode.dst] = SetSendResult]_vars

(***************************************************************************)
(* The ALU in the two backends, under SpecAlu: a program that loads two    *)
(* registers and combines them is run by the interpreter and then,         *)
(* compiled, by the JIT.                                                   *)
(***************************************************************************)
InitAlu == \E code \in AluPrograms : InitEngine("interp", Put(<<>>, 1, code))

SpecAlu == InitAlu /\ [][NextEquiv]_vars

\* bit i of a u32
BitOf(v, i) ==
    IF i < 16 THEN (Lo(v) \div (2 ^ i)) % 2 ELSE (Hi(v) \div (2 ^ (i - 16))) % 2

\* the carry into bit i of a + b, and bit i of a + b modulo 2^32
RECURSIVE CarryInto(_, _, _)
CarryInto(a, b, i) ==
    IF i = 0 THEN 0
    ELSE (BitOf(a, i - 1) + BitOf(b, i - 1) + CarryInto(a, b, i - 1)) \div 2

SumBit(a, b, i) == (BitOf(a, i) + BitOf(b, i) + CarryInto(a, b, i)) % 2

\* r is the value the ALU table gives for a and b: r = a + b, r + b = a for
\* Subtract, and bit by bit for the logical operations
AluTable(alu, a, b, r) ==
    \A i \in 0..31 :
        CASE alu = AluAdd      -> BitOf(r, i) = SumBit(a, b, i)
          [] alu = AluSubtract -> BitOf(a, i) = SumBit(r, b, i)
          [] alu = AluXor      -> BitOf(r, i) = (BitOf(a, i) + BitOf(b, i)) % 2
          [] alu = AluOr       -> BitOf(r, i) = IF BitOf(a, i) + BitOf(b, i) > 0
                                                THEN 1 ELSE 0
          [] alu = AluAnd      -> BitOf(r, i) = BitOf(a, i) * BitOf(b, i)
          [] alu = AluAndNot   -> BitOf(r, i) = BitOf(a, i) * (1 - BitOf(b, i))
          [] alu = AluNand     -> BitOf(r, i) = 1 - BitOf(a, i) * BitOf(b, i)

\* a step of either backend executed an ALU instruction
AluStepped ==
    /\ running # NoMethod
    /\ Len(executed') = Len(executed) + 1
    /\ SteppedOpcode.operation = OpALU

\* C32: for Add, Subtract, Xor, Or, And, AndNot and Nand the value stored
\* in dst is a + b, a - b, a xor b, a or b, a and b, a and not b,
\* not (a and b) modulo 2^32 on a = reg[src_a] and b = reg[src_b], in the
\* interpreter and in the JIT routine, and the JIT leaves in dst what the
\* interpreter left.
C32_AluOperations ==
    /\ [][AluStepped =>
             /\ ~crashed'
             /\ AluTable(SteppedOpcode.alu_operation,
                         macro_cache[running].registers[SteppedOpcode.src_a],
                         macro_cache[running].registers[SteppedOpcode.src_b],
                         macro_cache'[running].registers[SteppedOpcode.dst])]_vars
    /\ []((backend = "jit" /\ ref # <<>> /\ Idle /\ outcome = "halted") =>
              \A r \in {ExecutedOpcode(3).src_a, ExecutedOpcode(3).src_b,
                         ExecutedOpcode(3).dst} :
                  macro_cache[called].registers[r] = ref.registers[r])

\* the JIT routine has computed 0 - 1 = 0xFFFFFFFF, as the interpreter did
\* before it
C32_Witness ==
    /\ backend = "jit" /\ ref # <<>> /\ Idle /\ outcome = "halted"
    /\ Len(executed) = 4
    /\ ExecutedOpcode(3).operation = OpALU
    /\ ExecutedOpcode(3).alu_operation = AluSubtract
    /\ macro_cache[called].registers[2] = Zero32
    /\ macro_cache[called].registers[3] = <<0, 1>>
    /\ macro_cache[called].registers[4] = <<65535, 65535>>
    /\ ref.registers[4] = <<65535, 65535>>

(***************************************************************************)
(* ExtractShiftLeftImmediate and ExtractShiftLeftRegister in the two       *)
(* backends, under SpecExtractShift.                                       *)
(***************************************************************************)
InitExtractShift ==
    \E code \in ExtractShiftPrograms : InitEngine("interp", Put(<<>>, 1, code))

SpecExtractShift == InitExtractShift /\ [][NextEquiv]_vars

\* bit i of ((b >> right) & mask) << left with mask = (1 << size) - 1: the
\* bit of b that lands there when it lies inside the field, 0 otherwise
ExtractShiftBit(b, right, size, left, i) ==
    IF i >= left /\ i - left < size /\ i - left + right <= 31
    THEN BitOf(b, i - left + right)
    ELSE 0

\* a step of either backend executed one of the two operations with a shift
\* amount below 32 in reg[src_a]
ExtractShiftStepped ==
    /\ running # NoMethod
    /\ Len(executed') = Len(executed) + 1
    /\ SteppedOpcode.operation \in
           {OpExtractShiftLeftImmediate, OpExtractShiftLeftRegister}
    /\ Hi(macro_cache[running].registers[SteppedOpcode.src_a]) = 0
    /\ Lo(macro_cache[running].registers[SteppedOpcode.src_a]) < 32

\* C33: with a shift amount below 32 in reg[src_a],
\* ExtractShiftLeftImmediate stores ((reg[src_b] >> reg[src_a]) & mask) <<
\* bf_dst_bit and ExtractShiftLeftRegister stores ((reg[src_b] >>
\* bf_src_bit) & mask) << reg[src_a], mask = (1 << bf_size) - 1, in the
\* interpreter and in the JIT routine.
C33_ExtractShiftLeft ==
    [][ExtractShiftStepped =>
          /\ ~crashed'
          /\ \A i \in 0..31 :
                 BitOf(macro_cache'[running].registers[SteppedOpcode.dst], i) =
                     IF SteppedOpcode.operation = OpExtractShiftLeftImmediate
                     THEN ExtractShiftBit(
                              macro_cache[running].registers[SteppedOpcode.src_b],
                              Lo(macro_cache[running].registers[SteppedOpcode.src_a]),
                              SteppedOpcode.bf_size, SteppedOpcode.bf_dst_bit, i)
                     ELSE ExtractShiftBit(
                              macro_cache[running].registers[SteppedOpcode.src_b],
                              SteppedOpcode.bf_src_bit, SteppedOpcode.bf_size,
                              Lo(macro_cache[running].registers[SteppedOpcode.src_a]),
                              i)]_vars

(***************************************************************************)
(* Termination of InterpretedMacro::Execute, under SpecTermination: a      *)
(* program is uploaded word by word and then invoked once; the step loop   *)
(* and the recursion of Step always make their next call.                  *)
(***************************************************************************)
InitTermination == InitEngine("interp", <<>>)

NextTermination ==
    \/ \E w \in TerminationWords : calls[1] = 0 /\ AddCode(1, w)
    \/ \E p \in TerminationParamLists : calls[1] = 0 /\ Execute(1, p)
    \/ InterpStep

SpecTermination ==
    InitTermination /\ [][NextTermination]_vars /\ WF_vars(InterpStep)

\* every Branch word of the code has a positive immediate
ForwardOnly(code) ==
    \A i \in 1..Len(code) :
        Decode(code[i]).operation = OpBranch => Decode(code[i]).immediate > 0

\* an Execute of the interpreter on a program without backward branches has
\* been entered
ForwardInvoked ==
    /\ backend = "interp" /\ called = 1
    /\ outcome \notin {"none", "not_uploaded"}
    /\ ForwardOnly(uploaded_macro_code[1])

\* no instruction has been fetched at or beyond the end of the code
FetchesInsideCode ==
    \A k \in 1..Len(executed) :
        executed[k].idx \in 0..(Len(uploaded_macro_code[ExecutedMethod]) - 1)

\* C36 as stated: an Execute on a program without backward branches
\* eventually ends its step loop through an exit and its delay slot or
\* stops with the failed ASSERT of GetOpcode at the end of the code, and
\* never fetches a code word at an index >= the code length.
C36_TerminatesByExitOrEnd ==
    /\ ForwardInvoked ~> (ForwardInvoked /\ (InterpLoopEnded \/ outcome = "assert_pc"))
    /\ [](ForwardInvoked => FetchesInsideCode)

\* C36, amended: an Execute on a program without backward branches
\* eventually ends its step loop through an exit and its delay slot, or is
\* aborted by a failed ASSERT (code fetch at the end of the code, parameter
\* fetch beyond the list, Branch in a delay slot) or by an unimplemented
\* operation; it never fetches a code word at an index >= the code length,
\* and the failed code fetch happens with pc at or beyond the end.
C36_Terminates ==
    /\ ForwardInvoked ~>
           (ForwardInvoked /\
            (InterpLoopEnded \/
             outcome \in {"assert_pc", "assert_fetch", "assert_branch_in_delay_slot",
                          "unimplemented"}))
    /\ [](ForwardInvoked =>
              /\ FetchesInsideCode
              /\ outcome = "assert_pc" =>
                     macro_cache[1].pc >= 4 * Len(uploaded_macro_code[1]))

\* an Execute has run off the end of a program without exit: three words
\* executed, the fourth fetch failed
C36_Witness ==
    /\ ForwardInvoked /\ outcome = "assert_pc" /\ crashed
    /\ Len(uploaded_macro_code[1]) = 3 /\ Len(executed) = 3
    /\ executed[3].idx = 2
    /\ macro_cache[1].pc = 12

====
